---- MODULE Spec2Model ----
(***************************************************************************)
(* Model of the kalimere back office: customers, pets, visits, visit       *)
(* treatments / notes / images and the presigned-upload key checks.        *)
(*                                                                         *)
(* Tables are functions from the ids of the rows that exist to the rows    *)
(* (visits, customers, pets, treatments) or sequences of rows in insertion *)
(* order (visit treatments, notes, images).  Ids are UUIDs in the program: *)
(* fixed-length opaque strings, modelled as atomic tokens.  A storage key  *)
(* is a string; it is modelled as the sequence of its tokens (ids, "/",    *)
(* literal parts) and startsWith is a real prefix test on that sequence.   *)
(* Text values (title, description, note) are sequences of characters.     *)
(* `last` is the outcome of the most recent service call: its name, its    *)
(* arguments, the error it threw ("ok" when it returned), the value it     *)
(* returned, and the database writes and object-storage calls it issued.   *)
(* `issued` is the history of the storage keys the upload-url calls have   *)
(* handed out, with the resource each was issued for.                      *)
(*                                                                         *)
(* The browser's ImageUpload component is modelled next to the service:    *)
(* `props` are the properties it was mounted with, `uploadStage`, `error`  *)
(* and `preview` its React state, `runs` the files selected so far, each   *)
(* with the place its handleFileChange has reached, and `calls` the        *)
(* callbacks and the storage PUTs the component has issued, in order.      *)
(***************************************************************************)
EXTENDS Integers, Sequences, FiniteSets, TLC

VARIABLES customers, pets, treatments, visits, visitTreatments, visitNotes,
          visitImages, last, issued,
          props, uploadStage, error, preview, runs, calls,
          hook, queryData, invalidated, mutations, tasks

dbVars == <<customers, pets, treatments, visits, visitTreatments, visitNotes, visitImages>>
\* the ImageUpload component of the browser
uiVars == <<props, uploadStage, error, preview, runs, calls>>
\* the usePetUpdateMutation hook and the query cache it writes
hookVars == <<hook, queryData, invalidated, mutations>>
vars ==
  <<customers, pets, treatments, visits, visitTreatments, visitNotes, visitImages, last,
    issued, props, uploadStage, error, preview, runs, calls,
    hook, queryData, invalidated, mutations, tasks>>

(***************************************************************************)
(* Bounds                                                                  *)
(***************************************************************************)
MaxVisits == 1
MaxTreatmentRows == 2
MaxNoteRows == 1
MaxImages == 1
MaxIssued == 1
MaxCustomers == 1
MaxPets == 2
MaxListed == 3
MaxTextLen == 3
MonthTicks == 2
UpcomingLimit == 5
MaxRuns == 1
MaxPicks == 2
\* file sizes are counted in MiB: 5 * 1024 * 1024 bytes
MAX_FILE_SIZE_BYTES == 5

(***************************************************************************)
(* Value universe                                                          *)
(***************************************************************************)
Users == {"u1", "u2"}
CustomerIds == {"c1", "c2"}
PetIds == {"p1", "p2", "p3"}
TreatmentIds == {"t1", "t2"}
VisitIdPool == <<"v1", "v2", "v3", "v4", "v5", "v6", "v7", "v8", "v9">>
ImageIdPool == <<"i1", "i2", "i3">>
CustomerIdPool == <<"c1", "c2", "c3", "c4">>
PetIdPool == <<"p1", "p2", "p3", "p4", "p5">>
\* an id no row ever has (a random UUID supplied by a caller)
GhostId == "zz"

\* null for text and for storage keys (both are sequences of tokens)
Null == <<"null">>
\* null for dates and numbers
NullNum == -1

EmptyRec == <<>>
Has(input, field) == field \in DOMAIN input

\* String.prototype.trim over a sequence of characters
RECURSIVE TrimLeft(_)
TrimLeft(s) == IF s # <<>> /\ Head(s) = " " THEN TrimLeft(Tail(s)) ELSE s
RECURSIVE TrimRight(_)
TrimRight(s) ==
  IF s # <<>> /\ s[Len(s)] = " " THEN TrimRight(SubSeq(s, 1, Len(s) - 1)) ELSE s
Trim(s) == TrimRight(TrimLeft(s))

\* String.prototype.startsWith
StartsWith(key, prefix) ==
  /\ Len(key) >= Len(prefix)
  /\ SubSeq(key, 1, Len(prefix)) = prefix

\* mutant: only leading whitespace is removed
cleanNullableString_TrimLeftOnly(value) ==
  IF value = Null THEN Null
  ELSE LET trimmed == TrimLeft(value) IN IF Len(trimmed) > 0 THEN trimmed ELSE Null

cleanNullableString(value) ==
  IF value = Null THEN Null
  ELSE LET trimmed == Trim(value) IN IF Len(trimmed) > 0 THEN trimmed ELSE Null

(***************************************************************************)
(* Outcomes                                                                *)
(***************************************************************************)
\* the database as a record of its tables
Db ==
  [customers |-> customers, pets |-> pets, treatments |-> treatments, visits |-> visits,
   visitTreatments |-> visitTreatments, visitNotes |-> visitNotes,
   visitImages |-> visitImages]

\* pre is the database as the call found it
Outcome(op, args, err, value, writes, s3) ==
  [op |-> op, args |-> args, err |-> err, value |-> value, writes |-> writes, s3 |-> s3,
   pre |-> Db]

\* the call threw before any write or storage call
Throw(op, args, err) ==
  /\ last' = Outcome(op, args, err, <<>>, <<>>, <<>>)
  /\ UNCHANGED <<dbVars, issued, uiVars, hookVars, tasks>>

(***************************************************************************)
(* Repositories                                                            *)
(***************************************************************************)
\* customer-repository: the active customer row with this id owned by the user
findCustomerByIdForUser(userId, customerId) ==
  {c \in DOMAIN customers :
     c = customerId /\ customers[c].userId = userId /\ ~customers[c].isDeleted}

\* pet-repository: the active pet row with this id under the customer
findPetByIdForCustomer(customerId, petId) ==
  {p \in DOMAIN pets :
     p = petId /\ pets[p].customerId = customerId /\ ~pets[p].isDeleted}

\* treatment-repository: the active treatment row with this id owned by the user
findTreatmentByIdForUser(userId, treatmentId) ==
  {t \in DOMAIN treatments :
     t = treatmentId /\ treatments[t].userId = userId /\ ~treatments[t].isDeleted}

\* visit joined (left joins) with its customer and pet rows; empty when the
\* visit is missing or deleted
findVisitWithCustomerById(visitId) ==
  {[id |-> v,
    customer |-> {c \in DOMAIN customers : c = visits[v].customerId},
    pet |-> {p \in DOMAIN pets : p = visits[v].petId}] :
     v \in {w \in DOMAIN visits : w = visitId /\ ~visits[w].isDeleted}}

\* the rows of a table that belong to the visit, in insertion order (createdAt
\* ascending); activeOnly adds the isDeleted = false filter
RECURSIVE SelectRows(_, _, _)
RECURSIVE SumPrices(_)
RECURSIVE AscendingFrom(_)
RECURSIVE Split(_, _)
SelectRows(rows, visitId, activeOnly) ==
  IF rows = <<>> THEN <<>>
  ELSE LET r == Head(rows)
           rest == SelectRows(Tail(rows), visitId, activeOnly)
       IN IF r.visitId = visitId /\ (~activeOnly \/ ~r.isDeleted)
          THEN <<r>> \o rest ELSE rest

\* the ways to put a finite set in a row
Orderings(S) ==
  {f \in [1..Cardinality(S) -> S] : \A i, j \in 1..Cardinality(S) : i # j => f[i] # f[j]}

\* mutant: the earliest scheduled visit comes first
findActiveVisitsByPetId_Ascending(petId) ==
  LET ids == {v \in DOMAIN visits : visits[v].petId = petId /\ ~visits[v].isDeleted} IN
  {o \in Orderings(ids) :
     \A i \in 1..Len(o) : \A j \in i..Len(o) :
       visits[o[i]].scheduledStartAt <= visits[o[j]].scheduledStartAt}

\* the active visits of a pet, latest scheduledStartAt first; the database may
\* return visits of equal time in either order, so the result is a set of rows
findActiveVisitsByPetId(petId) ==
  LET ids == {v \in DOMAIN visits : visits[v].petId = petId /\ ~visits[v].isDeleted} IN
  {o \in Orderings(ids) :
     \A i \in 1..Len(o) : \A j \in i..Len(o) :
       visits[o[i]].scheduledStartAt >= visits[o[j]].scheduledStartAt}

findVisitWithDetailsById(visitId) ==
  {[id |-> b.id, customer |-> b.customer, pet |-> b.pet,
    visitTreatments |-> SelectRows(visitTreatments, visitId, TRUE),
    notes |-> SelectRows(visitNotes, visitId, FALSE),
    images |-> SelectRows(visitImages, visitId, TRUE)] :
     b \in findVisitWithCustomerById(visitId)}

(***************************************************************************)
(* visit-service                                                           *)
(***************************************************************************)
serializeVisit(id, record) ==
  [id |-> id, petId |-> record.petId, customerId |-> record.customerId,
   status |-> record.status, scheduledStartAt |-> record.scheduledStartAt,
   scheduledEndAt |-> record.scheduledEndAt, completedAt |-> record.completedAt,
   title |-> cleanNullableString(record.title),
   description |-> cleanNullableString(record.description)]

serializeVisitWithDetails(record) ==
  [base |-> serializeVisit(record.id, visits[record.id]),
   treatments |-> record.visitTreatments,
   notes |-> record.notes,
   images |-> record.images]

\* one call to the object-storage service; ok is FALSE when it threw
S3Call(name, key, ok) == [call |-> name, key |-> key, ok |-> ok]

\* one step of a call: a repository write ("db") or a storage call ("s3")
Step(kind, name, key, ok) == [kind |-> kind, call |-> name, key |-> key, ok |-> ok]

\* an outcome together with its writes and storage calls in the order made
InOrder(outcome, steps) == [steps |-> steps] @@ outcome

\* the presigned download urls requested while serializing the images
DownloadCalls(images) ==
  [i \in 1..Len(images) |-> S3Call("getPresignedDownloadUrl", images[i].storageKey, TRUE)]

\* mutant: the customer is not checked against the user
ensureCustomerAndPetOwnership_AnyCustomer(userId, customerId, petId) ==
  {[customer |-> c, pet |-> p] :
     c \in {x \in DOMAIN customers : x = customerId /\ ~customers[x].isDeleted},
     p \in findPetByIdForCustomer(customerId, petId)}

\* mutant: the pet is looked up by id alone, not under the verified customer
ensureCustomerAndPetOwnership_AnyPet(userId, customerId, petId) ==
  {[customer |-> c, pet |-> p] :
     c \in findCustomerByIdForUser(userId, customerId),
     p \in {q \in DOMAIN pets : q = petId}}

\* {} when the call throws notFound, else the customer/pet pair
ensureCustomerAndPetOwnership(userId, customerId, petId) ==
  {[customer |-> c, pet |-> p] :
     c \in findCustomerByIdForUser(userId, customerId),
     p \in findPetByIdForCustomer(customerId, petId)}

\* mutant: one owned treatment is enough
ensureTreatmentsBelongToUser_AnyOwned(userId, items) ==
  \/ Len(items) = 0
  \/ \E i \in 1..Len(items) : findTreatmentByIdForUser(userId, items[i].treatmentId) # {}

\* TRUE when the call returns, FALSE when it throws notFound
ensureTreatmentsBelongToUser(userId, items) ==
  \/ Len(items) = 0
  \/ /\ \A i \in 1..Len(items) : items[i].treatmentId # ""
     /\ \A i \in 1..Len(items) : findTreatmentByIdForUser(userId, items[i].treatmentId) # {}

\* mutant: the customer's userId is not compared with the caller
ensureVisitBelongsToUser_NoOwnerCheck(userId, visitId) ==
  IF \E v \in findVisitWithCustomerById(visitId) : v.customer # {} /\ v.pet # {}
  THEN "ok" ELSE "not_found"

\* mutant: a visit of another user is answered permission-denied
ensureVisitBelongsToUser_Forbidden(userId, visitId) ==
  IF findVisitWithCustomerById(visitId) = {} THEN "not_found"
  ELSE IF \E v \in findVisitWithCustomerById(visitId) :
            /\ v.customer # {}
            /\ \A c \in v.customer : customers[c].userId = userId
            /\ v.pet # {}
       THEN "ok" ELSE "forbidden"

\* the error the call throws, "ok" when it returns the joined visit row
ensureVisitBelongsToUser(userId, visitId) ==
  IF \E v \in findVisitWithCustomerById(visitId) :
       /\ v.customer # {}
       /\ \A c \in v.customer : customers[c].userId = userId
       /\ v.pet # {}
  THEN "ok" ELSE "not_found"

ItemsOf(input, field) == IF Has(input, field) THEN input[field] ELSE <<>>

\* the rows of a batch insert share one creation time; the time is the number
\* of rows the table had, which grows from one insert to the next

treatmentsToCreate(visitId, input) ==
  LET items == ItemsOf(input, "treatments") IN
  [i \in 1..Len(items) |->
     [visitId |-> visitId, treatmentId |-> items[i].treatmentId,
      priceCents |-> IF Has(items[i], "priceCents") THEN items[i].priceCents ELSE NullNum,
      createdAt |-> Len(visitTreatments), isDeleted |-> FALSE]]

notesToCreate(visitId, input) ==
  LET items == ItemsOf(input, "notes") IN
  [i \in 1..Len(items) |->
     [visitId |-> visitId, note |-> Trim(items[i].note), createdAt |-> Len(visitNotes)]]

\* new Date(x) for a supplied value, null for a falsy one
DateOrNull(value) == IF value = NullNum THEN NullNum ELSE value

NextVisitId == VisitIdPool[Cardinality(DOMAIN visits) + 1]

listVisitsForPet(petId) ==
  \E records \in findActiveVisitsByPetId(petId) :
    /\ last' = Outcome("listVisitsForPet", [petId |-> petId], "ok",
                       [i \in 1..Len(records) |-> serializeVisit(records[i], visits[records[i]])],
                       <<>>, <<>>)
    /\ UNCHANGED <<dbVars, issued, uiVars, hookVars, tasks>>

\* the values createVisitForUser inserts for verified ids o; updatedAt is 0
\* as the insert's default leaves it, 1 once updateVisitById has set it anew
VisitInsertValues(o, input) ==
  [petId |-> o.pet, customerId |-> o.customer,
   status |-> IF Has(input, "status") THEN input.status ELSE "scheduled",
   scheduledStartAt |-> input.scheduledStartAt,
   scheduledEndAt |-> IF Has(input, "scheduledEndAt")
                      THEN DateOrNull(input.scheduledEndAt) ELSE NullNum,
   completedAt |-> IF Has(input, "completedAt")
                   THEN DateOrNull(input.completedAt) ELSE NullNum,
   title |-> cleanNullableString(IF Has(input, "title") THEN input.title ELSE Null),
   description |-> cleanNullableString(IF Has(input, "description")
                                       THEN input.description ELSE Null),
   updatedAt |-> 0, isDeleted |-> FALSE]

createVisitForUser(userId, input) ==
  LET op == "createVisitForUser"
      args == [userId |-> userId, input |-> input]
      own == ensureCustomerAndPetOwnership(userId, input.customerId, input.petId)
  IN
  IF own = {} THEN Throw(op, args, "not_found")
  ELSE IF ~ensureTreatmentsBelongToUser(userId, ItemsOf(input, "treatments"))
  THEN Throw(op, args, "not_found")
  ELSE
    LET o == CHOOSE x \in own : TRUE
        values == VisitInsertValues(o, input)
        visitId == NextVisitId
        tRows == treatmentsToCreate(visitId, input)
        nRows == notesToCreate(visitId, input)
    IN
    /\ visits' = visits @@ (visitId :> values)
    /\ visitTreatments' = visitTreatments \o tRows
    /\ visitNotes' = visitNotes \o nRows
    /\ last' = Outcome(op, args, "ok", serializeVisit(visitId, values),
                       <<"createVisit">>
                         \o (IF Len(tRows) > 0 THEN <<"createVisitTreatments">> ELSE <<>>)
                         \o (IF Len(nRows) > 0 THEN <<"createVisitNotes">> ELSE <<>>),
                       <<>>)
    /\ UNCHANGED <<customers, pets, treatments, visitImages, issued, uiVars, hookVars, tasks>>

getVisitForUser(userId, visitId) ==
  LET op == "getVisitForUser"
      args == [userId |-> userId, visitId |-> visitId]
  IN
  IF ensureVisitBelongsToUser(userId, visitId) # "ok"
  THEN Throw(op, args, ensureVisitBelongsToUser(userId, visitId))
  ELSE
    LET record == CHOOSE r \in findVisitWithDetailsById(visitId) : TRUE IN
    /\ last' = Outcome(op, args, "ok", serializeVisitWithDetails(record), <<>>,
                       DownloadCalls(record.images))
    /\ UNCHANGED <<dbVars, issued, uiVars, hookVars, tasks>>

\* mutant: supplied treatments and notes replace the stored ones
updateVisitForUser_Replaces(userId, visitId, input) ==
  LET op == "updateVisitForUser"
      args == [userId |-> userId, visitId |-> visitId, input |-> input]
  IN
  IF ensureVisitBelongsToUser(userId, visitId) # "ok"
  THEN Throw(op, args, ensureVisitBelongsToUser(userId, visitId))
  ELSE IF ~ensureTreatmentsBelongToUser(userId, ItemsOf(input, "treatments"))
  THEN Throw(op, args, "not_found")
  ELSE
    LET old == visits[visitId]
        updateKeys == DOMAIN input \cap {"status", "scheduledStartAt", "scheduledEndAt",
                                         "completedAt", "title", "description"}
        updated ==
          [old EXCEPT
             !.status = IF Has(input, "status") THEN input.status ELSE @,
             !.scheduledStartAt = IF Has(input, "scheduledStartAt")
                                  THEN input.scheduledStartAt ELSE @,
             !.scheduledEndAt = IF Has(input, "scheduledEndAt")
                                THEN DateOrNull(input.scheduledEndAt) ELSE @,
             !.completedAt = IF Has(input, "completedAt")
                             THEN DateOrNull(input.completedAt) ELSE @,
             !.title = IF Has(input, "title") THEN cleanNullableString(input.title) ELSE @,
             !.description = IF Has(input, "description")
                             THEN cleanNullableString(input.description) ELSE @,
             !.updatedAt = 1]
        tRows == treatmentsToCreate(visitId, input)
        nRows == notesToCreate(visitId, input)
    IN
    /\ visits' = IF updateKeys # {} THEN [visits EXCEPT ![visitId] = updated] ELSE visits
    /\ visitTreatments' =
         IF Len(tRows) > 0
         THEN SelectSeq(visitTreatments, LAMBDA r : r.visitId # visitId) \o tRows
         ELSE visitTreatments
    /\ visitNotes' =
         IF Len(nRows) > 0
         THEN SelectSeq(visitNotes, LAMBDA r : r.visitId # visitId) \o nRows
         ELSE visitNotes
    /\ UNCHANGED <<customers, pets, treatments, visitImages, issued, uiVars, hookVars, tasks>>
    /\ LET record == [id |-> visitId,
                      visitTreatments |-> SelectRows(visitTreatments', visitId, TRUE),
                      notes |-> SelectRows(visitNotes', visitId, FALSE),
                      images |-> SelectRows(visitImages, visitId, TRUE)]
       IN last' = Outcome(op, args, "ok",
                          [base |-> serializeVisit(visitId, visits'[visitId]),
                           treatments |-> record.visitTreatments,
                           notes |-> record.notes,
                           images |-> record.images],
                          (IF updateKeys # {} THEN <<"updateVisitById">> ELSE <<>>)
                            \o (IF Len(tRows) > 0 THEN <<"createVisitTreatments">> ELSE <<>>)
                            \o (IF Len(nRows) > 0 THEN <<"createVisitNotes">> ELSE <<>>),
                          DownloadCalls(record.images))

updateVisitForUser_ClearsOmitted(userId, visitId, input) ==
  LET op == "updateVisitForUser"
      args == [userId |-> userId, visitId |-> visitId, input |-> input]
  IN
  IF ensureVisitBelongsToUser(userId, visitId) # "ok"
  THEN Throw(op, args, ensureVisitBelongsToUser(userId, visitId))
  ELSE IF ~ensureTreatmentsBelongToUser(userId, ItemsOf(input, "treatments"))
  THEN Throw(op, args, "not_found")
  ELSE
    LET old == visits[visitId]
        updateKeys == DOMAIN input \cap {"status", "scheduledStartAt", "scheduledEndAt",
                                         "completedAt", "title", "description"}
        updated ==
          [old EXCEPT
             !.status = IF Has(input, "status") THEN input.status ELSE @,
             !.scheduledStartAt = IF Has(input, "scheduledStartAt")
                                  THEN input.scheduledStartAt ELSE @,
             !.scheduledEndAt = IF Has(input, "scheduledEndAt")
                                THEN DateOrNull(input.scheduledEndAt) ELSE @,
             !.completedAt = IF Has(input, "completedAt")
                             THEN DateOrNull(input.completedAt) ELSE NullNum,
             !.title = IF Has(input, "title") THEN cleanNullableString(input.title) ELSE @,
             !.description = IF Has(input, "description")
                             THEN cleanNullableString(input.description) ELSE @,
             !.updatedAt = 1]
        tRows == treatmentsToCreate(visitId, input)
        nRows == notesToCreate(visitId, input)
    IN
    /\ visits' = IF updateKeys # {} THEN [visits EXCEPT ![visitId] = updated] ELSE visits
    /\ visitTreatments' = visitTreatments \o tRows
    /\ visitNotes' = visitNotes \o nRows
    /\ UNCHANGED <<customers, pets, treatments, visitImages, issued, uiVars, hookVars, tasks>>
    /\ LET record == [id |-> visitId,
                      visitTreatments |-> SelectRows(visitTreatments', visitId, TRUE),
                      notes |-> SelectRows(visitNotes', visitId, FALSE),
                      images |-> SelectRows(visitImages, visitId, TRUE)]
       IN last' = Outcome(op, args, "ok",
                          [base |-> serializeVisit(visitId, visits'[visitId]),
                           treatments |-> record.visitTreatments,
                           notes |-> record.notes,
                           images |-> record.images],
                          (IF updateKeys # {} THEN <<"updateVisitById">> ELSE <<>>)
                            \o (IF Len(tRows) > 0 THEN <<"createVisitTreatments">> ELSE <<>>)
                            \o (IF Len(nRows) > 0 THEN <<"createVisitNotes">> ELSE <<>>),
                          DownloadCalls(record.images))

updateVisitForUser(userId, visitId, input) ==
  LET op == "updateVisitForUser"
      args == [userId |-> userId, visitId |-> visitId, input |-> input]
  IN
  IF ensureVisitBelongsToUser(userId, visitId) # "ok"
  THEN Throw(op, args, ensureVisitBelongsToUser(userId, visitId))
  ELSE IF ~ensureTreatmentsBelongToUser(userId, ItemsOf(input, "treatments"))
  THEN Throw(op, args, "not_found")
  ELSE
    LET old == visits[visitId]
        updateKeys == DOMAIN input \cap {"status", "scheduledStartAt", "scheduledEndAt",
                                         "completedAt", "title", "description"}
        updated ==
          [old EXCEPT
             !.status = IF Has(input, "status") THEN input.status ELSE @,
             !.scheduledStartAt = IF Has(input, "scheduledStartAt")
                                  THEN input.scheduledStartAt ELSE @,
             !.scheduledEndAt = IF Has(input, "scheduledEndAt")
                                THEN DateOrNull(input.scheduledEndAt) ELSE @,
             !.completedAt = IF Has(input, "completedAt")
                             THEN DateOrNull(input.completedAt) ELSE @,
             !.title = IF Has(input, "title") THEN cleanNullableString(input.title) ELSE @,
             !.description = IF Has(input, "description")
                             THEN cleanNullableString(input.description) ELSE @,
             !.updatedAt = 1]
        tRows == treatmentsToCreate(visitId, input)
        nRows == notesToCreate(visitId, input)
    IN
    /\ visits' = IF updateKeys # {} THEN [visits EXCEPT ![visitId] = updated] ELSE visits
    /\ visitTreatments' = visitTreatments \o tRows
    /\ visitNotes' = visitNotes \o nRows
    /\ UNCHANGED <<customers, pets, treatments, visitImages, issued, uiVars, hookVars, tasks>>
    /\ LET record == [id |-> visitId,
                      visitTreatments |-> SelectRows(visitTreatments', visitId, TRUE),
                      notes |-> SelectRows(visitNotes', visitId, FALSE),
                      images |-> SelectRows(visitImages, visitId, TRUE)]
       IN last' = Outcome(op, args, "ok",
                          [base |-> serializeVisit(visitId, visits'[visitId]),
                           treatments |-> record.visitTreatments,
                           notes |-> record.notes,
                           images |-> record.images],
                          (IF updateKeys # {} THEN <<"updateVisitById">> ELSE <<>>)
                            \o (IF Len(tRows) > 0 THEN <<"createVisitTreatments">> ELSE <<>>)
                            \o (IF Len(nRows) > 0 THEN <<"createVisitNotes">> ELSE <<>>),
                          DownloadCalls(record.images))

(***************************************************************************)
(* s3 and the visit images                                                 *)
(***************************************************************************)
buildPetScopePrefix(userId, customerId, petId) == <<userId, "/", customerId, "/", petId>>

\* a presigned url for a key
SignedUrl(key) == <<"https://">> \o key

\* the history keeps up to MaxIssued of the keys handed out
Record(entry) ==
  IF entry \in issued \/ Cardinality(issued) < MaxIssued THEN issued \cup {entry} ELSE issued

serializeVisitImage(record) ==
  [id |-> record.id, visitId |-> record.visitId, url |-> SignedUrl(record.storageKey)]

\* mutant: the key is built under the pet scope, without the visit folder
getVisitImageUploadUrl_PetScopeKey(userId, visitId, uuid) ==
  LET op == "getVisitImageUploadUrl"
      args == [userId |-> userId, visitId |-> visitId]
  IN
  IF ensureVisitBelongsToUser(userId, visitId) # "ok"
  THEN Throw(op, args, ensureVisitBelongsToUser(userId, visitId))
  ELSE
    LET visit == CHOOSE v \in findVisitWithCustomerById(visitId) : TRUE
        customer == CHOOSE c \in visit.customer : TRUE
        pet == CHOOSE q \in visit.pet : TRUE
        key == buildPetScopePrefix(userId, customer, pet) \o <<"/", uuid>>
    IN
    /\ last' = Outcome(op, args, "ok", [url |-> SignedUrl(key), key |-> key, uuid |-> uuid],
                       <<>>, <<S3Call("getPresignedUploadUrl", key, TRUE)>>)
    /\ issued' = Record([kind |-> "visit", key |-> key, userId |-> userId,
                         customerId |-> customer, petId |-> pet, visitId |-> visitId])
    /\ UNCHANGED <<dbVars, uiVars, hookVars, tasks>>

getVisitImageUploadUrl(userId, visitId, uuid) ==
  LET op == "getVisitImageUploadUrl"
      args == [userId |-> userId, visitId |-> visitId]
  IN
  IF ensureVisitBelongsToUser(userId, visitId) # "ok"
  THEN Throw(op, args, ensureVisitBelongsToUser(userId, visitId))
  ELSE
    LET visit == CHOOSE v \in findVisitWithCustomerById(visitId) : TRUE
        customer == CHOOSE c \in visit.customer : TRUE
        pet == CHOOSE q \in visit.pet : TRUE
        prefix == buildPetScopePrefix(userId, customer, pet)
        key == prefix \o <<"/", "visits", "/", visit.id, "/", uuid>>
    IN
    /\ last' = Outcome(op, args, "ok", [url |-> SignedUrl(key), key |-> key, uuid |-> uuid],
                       <<>>, <<S3Call("getPresignedUploadUrl", key, TRUE)>>)
    /\ issued' = Record([kind |-> "visit", key |-> key, userId |-> userId,
                         customerId |-> customer, petId |-> pet, visitId |-> visitId])
    /\ UNCHANGED <<dbVars, uiVars, hookVars, tasks>>

\* mutant: the key is checked against the pet scope only, not the visit folder
validateVisitImageKey_PetScopeOnly(userId, visit, key) ==
  /\ visit.customer # {} /\ visit.pet # {}
  /\ \E c \in visit.customer, q \in visit.pet :
       StartsWith(key, buildPetScopePrefix(userId, c, q) \o <<"/", "visits", "/">>)

validateVisitImageKey(userId, visit, key) ==
  /\ visit.customer # {} /\ visit.pet # {}
  /\ \E c \in visit.customer, q \in visit.pet :
       StartsWith(key, buildPetScopePrefix(userId, c, q) \o <<"/", "visits", "/", visit.id, "/">>)

addVisitImage(userId, visitId, key) ==
  LET op == "addVisitImage"
      args == [userId |-> userId, visitId |-> visitId, key |-> key]
  IN
  IF ensureVisitBelongsToUser(userId, visitId) # "ok"
  THEN Throw(op, args, ensureVisitBelongsToUser(userId, visitId))
  ELSE
    LET visit == CHOOSE v \in findVisitWithCustomerById(visitId) : TRUE IN
    IF ~validateVisitImageKey(userId, visit, key) THEN Throw(op, args, "invalid_storage_key")
    ELSE
      LET image == [id |-> ImageIdPool[Len(visitImages) + 1], visitId |-> visitId,
                    storageKey |-> key, isDeleted |-> FALSE]
      IN
      /\ visitImages' = Append(visitImages, image)
      /\ last' = Outcome(op, args, "ok", serializeVisitImage(image), <<"createVisitImages">>,
                         <<S3Call("getPresignedDownloadUrl", key, TRUE)>>)
      /\ UNCHANGED <<customers, pets, treatments, visits, visitTreatments, visitNotes, issued, uiVars, hookVars, tasks>>

\* the positions of the active image rows with this id
findVisitImageById(imageId) ==
  {i \in 1..Len(visitImages) : visitImages[i].id = imageId /\ ~visitImages[i].isDeleted}

\* mutant: the image is not compared with the visit named in the call
deleteVisitImage_AnyVisit(userId, visitId, imageId, s3Fails) ==
  LET op == "deleteVisitImage"
      args == [userId |-> userId, visitId |-> visitId, imageId |-> imageId]
      found == findVisitImageById(imageId)
  IN
  IF ensureVisitBelongsToUser(userId, visitId) # "ok"
  THEN Throw(op, args, ensureVisitBelongsToUser(userId, visitId))
  ELSE IF found = {}
  THEN Throw(op, args, "not_found")
  ELSE
    LET i == CHOOSE j \in found : TRUE
        image == visitImages[i]
    IN
    /\ visitImages' = [visitImages EXCEPT ![i].isDeleted = TRUE]
    /\ last' = InOrder(Outcome(op, args, "ok", serializeVisitImage(image),
                               <<"deleteVisitImage">>,
                               <<S3Call("deleteObject", image.storageKey, ~s3Fails),
                                 S3Call("getPresignedDownloadUrl", image.storageKey, TRUE)>>),
                       <<Step("s3", "deleteObject", image.storageKey, ~s3Fails),
                         Step("db", "deleteVisitImage", Null, TRUE),
                         Step("s3", "getPresignedDownloadUrl", image.storageKey, TRUE)>>)
    /\ UNCHANGED <<customers, pets, treatments, visits, visitTreatments, visitNotes, issued, uiVars, hookVars, tasks>>

\* mutant: a storage failure ends the call before the soft delete
deleteVisitImage_StopsOnStorageError(userId, visitId, imageId, s3Fails) ==
  LET op == "deleteVisitImage"
      args == [userId |-> userId, visitId |-> visitId, imageId |-> imageId]
      found == findVisitImageById(imageId)
  IN
  IF ensureVisitBelongsToUser(userId, visitId) # "ok"
  THEN Throw(op, args, ensureVisitBelongsToUser(userId, visitId))
  ELSE IF found = {} \/ \E i \in found : visitImages[i].visitId # visitId
  THEN Throw(op, args, "not_found")
  ELSE
    LET i == CHOOSE j \in found : TRUE
        image == visitImages[i]
    IN
    IF s3Fails
    THEN /\ last' = InOrder(Outcome(op, args, "storage_error", <<>>, <<>>,
                                    <<S3Call("deleteObject", image.storageKey, FALSE)>>),
                            <<Step("s3", "deleteObject", image.storageKey, FALSE)>>)
         /\ UNCHANGED <<dbVars, issued, uiVars, hookVars, tasks>>
    ELSE /\ visitImages' = [visitImages EXCEPT ![i].isDeleted = TRUE]
         /\ last' = InOrder(Outcome(op, args, "ok", serializeVisitImage(image),
                                    <<"deleteVisitImage">>,
                                    <<S3Call("deleteObject", image.storageKey, TRUE),
                                      S3Call("getPresignedDownloadUrl", image.storageKey, TRUE)>>),
                            <<Step("s3", "deleteObject", image.storageKey, TRUE),
                              Step("db", "deleteVisitImage", Null, TRUE),
                              Step("s3", "getPresignedDownloadUrl", image.storageKey, TRUE)>>)
         /\ UNCHANGED <<customers, pets, treatments, visits, visitTreatments, visitNotes,
                        issued, uiVars, hookVars, tasks>>

\* s3Fails: the storage delete throws
deleteVisitImage(userId, visitId, imageId, s3Fails) ==
  LET op == "deleteVisitImage"
      args == [userId |-> userId, visitId |-> visitId, imageId |-> imageId]
      found == findVisitImageById(imageId)
  IN
  IF ensureVisitBelongsToUser(userId, visitId) # "ok"
  THEN Throw(op, args, ensureVisitBelongsToUser(userId, visitId))
  ELSE IF found = {} \/ \E i \in found : visitImages[i].visitId # visitId
  THEN Throw(op, args, "not_found")
  ELSE
    LET i == CHOOSE j \in found : TRUE
        image == visitImages[i]
    IN
    /\ visitImages' = [visitImages EXCEPT ![i].isDeleted = TRUE]
    /\ last' = InOrder(Outcome(op, args, "ok", serializeVisitImage(image),
                               <<"deleteVisitImage">>,
                               <<S3Call("deleteObject", image.storageKey, ~s3Fails),
                                 S3Call("getPresignedDownloadUrl", image.storageKey, TRUE)>>),
                       <<Step("s3", "deleteObject", image.storageKey, ~s3Fails),
                         Step("db", "deleteVisitImage", Null, TRUE),
                         Step("s3", "getPresignedDownloadUrl", image.storageKey, TRUE)>>)
    /\ UNCHANGED <<customers, pets, treatments, visits, visitTreatments, visitNotes, issued, uiVars, hookVars, tasks>>

(***************************************************************************)
(* customer-service: pets and their profile images                         *)
(***************************************************************************)
serializePet(id, record) ==
  [id |-> id, customerId |-> record.customerId, name |-> Trim(record.name),
   imageUrl |-> IF record.imageUrl # Null /\ record.imageUrl # <<>>
                THEN SignedUrl(record.imageUrl) ELSE Null]

\* the download url requested while serializing a pet that has an image
PetDownloadCalls(record) ==
  IF record.imageUrl # Null /\ record.imageUrl # <<>>
  THEN <<S3Call("getPresignedDownloadUrl", record.imageUrl, TRUE)>> ELSE <<>>

getPetImageUploadUrl(userId, customerId, petId, now) ==
  LET op == "getPetImageUploadUrl"
      args == [userId |-> userId, customerId |-> customerId, petId |-> petId]
  IN
  IF findCustomerByIdForUser(userId, customerId) = {} THEN Throw(op, args, "not_found")
  ELSE
    LET customer == CHOOSE c \in findCustomerByIdForUser(userId, customerId) : TRUE
        key == buildPetScopePrefix(userId, customer, petId) \o <<"/", "profile-", now>>
    IN
    /\ last' = Outcome(op, args, "ok", [url |-> SignedUrl(key), key |-> key], <<>>,
                       <<S3Call("getPresignedUploadUrl", key, TRUE)>>)
    /\ issued' = Record([kind |-> "pet", key |-> key, userId |-> userId,
                         customerId |-> customer, petId |-> petId, visitId |-> GhostId])
    /\ UNCHANGED <<dbVars, uiVars, hookVars, tasks>>

\* mutant: the key is checked against the customer scope, not the pet
validatePetImageKey_CustomerScope(userId, customerId, petId, key) ==
  /\ StartsWith(key, <<userId, "/", customerId, "/">>)
  /\ Len(key) >= 7
  /\ key[6] = "/" /\ key[7] = "profile-"

validatePetImageKey(userId, customerId, petId, key) ==
  StartsWith(key, buildPetScopePrefix(userId, customerId, petId) \o <<"/", "profile-">>)

\* mutant: the row is updated before the key is checked
updatePetForCustomer_ValidatesLate(customerId, petId, input, userId, s3Fails) ==
  LET op == "updatePetForCustomer"
      args == [customerId |-> customerId, petId |-> petId, input |-> input, userId |-> userId]
  IN
  IF findPetByIdForCustomer(customerId, petId) = {} THEN Throw(op, args, "not_found")
  ELSE
    LET updated ==
          [pets[petId] EXCEPT
             !.name = IF Has(input, "name") THEN input.name ELSE @,
             !.imageUrl = IF Has(input, "imageUrl") THEN input.imageUrl ELSE @]
    IN
    /\ pets' = [pets EXCEPT ![petId] = updated]
    /\ UNCHANGED <<customers, treatments, visits, visitTreatments, visitNotes,
                   visitImages, issued, uiVars, hookVars, tasks>>
    /\ IF /\ Has(input, "imageUrl")
          /\ input.imageUrl # Null
          /\ ~validatePetImageKey(userId, customerId, petId, input.imageUrl)
       THEN last' = Outcome(op, args, "invalid_storage_key", <<>>, <<>>, <<>>)
       ELSE last' = Outcome(op, args, "ok", serializePet(petId, updated),
                            <<"updatePetById">>, PetDownloadCalls(updated))

\* s3Fails: the storage delete throws
\* mutant: the old object is deleted before the row is updated
updatePetForCustomer_DeletesFirst(customerId, petId, input, userId, s3Fails) ==
  LET op == "updatePetForCustomer"
      args == [customerId |-> customerId, petId |-> petId, input |-> input, userId |-> userId]
  IN
  IF findPetByIdForCustomer(customerId, petId) = {} THEN Throw(op, args, "not_found")
  ELSE IF /\ Has(input, "imageUrl")
          /\ input.imageUrl # Null
          /\ ~validatePetImageKey(userId, customerId, petId, input.imageUrl)
  THEN Throw(op, args, "invalid_storage_key")
  ELSE
    LET record == pets[petId]
        imageToDelete ==
          IF ~Has(input, "imageUrl") THEN Null
          ELSE IF input.imageUrl = Null THEN record.imageUrl
          ELSE IF record.imageUrl # Null /\ record.imageUrl # input.imageUrl
               THEN record.imageUrl ELSE Null
        updated ==
          [record EXCEPT
             !.name = IF Has(input, "name") THEN input.name ELSE @,
             !.imageUrl = IF Has(input, "imageUrl") THEN input.imageUrl ELSE @]
    IN
    /\ pets' = IF imageToDelete # Null /\ s3Fails THEN pets
               ELSE [pets EXCEPT ![petId] = updated]
    /\ UNCHANGED <<customers, treatments, visits, visitTreatments, visitNotes,
                   visitImages, issued, uiVars, hookVars, tasks>>
    /\ IF imageToDelete # Null /\ s3Fails
       THEN last' = InOrder(Outcome(op, args, "storage_error", <<>>, <<>>,
                                    <<S3Call("deleteObject", imageToDelete, FALSE)>>),
                            <<Step("s3", "deleteObject", imageToDelete, FALSE)>>)
       ELSE last' = InOrder(Outcome(op, args, "ok", serializePet(petId, updated),
                                    <<"updatePetById">>,
                                    (IF imageToDelete # Null
                                     THEN <<S3Call("deleteObject", imageToDelete, TRUE)>>
                                     ELSE <<>>) \o PetDownloadCalls(updated)),
                            (IF imageToDelete # Null
                             THEN <<Step("s3", "deleteObject", imageToDelete, TRUE)>>
                             ELSE <<>>)
                              \o <<Step("db", "updatePetById", Null, TRUE)>>
                              \o [n \in 1..Len(PetDownloadCalls(updated)) |->
                                    Step("s3", "getPresignedDownloadUrl", updated.imageUrl, TRUE)])

updatePetForCustomer(customerId, petId, input, userId, s3Fails) ==
  LET op == "updatePetForCustomer"
      args == [customerId |-> customerId, petId |-> petId, input |-> input, userId |-> userId]
  IN
  IF findPetByIdForCustomer(customerId, petId) = {} THEN Throw(op, args, "not_found")
  ELSE IF /\ Has(input, "imageUrl")
          /\ input.imageUrl # Null
          /\ ~validatePetImageKey(userId, customerId, petId, input.imageUrl)
  THEN Throw(op, args, "invalid_storage_key")
  ELSE
    LET record == pets[petId]
        imageToDelete ==
          IF ~Has(input, "imageUrl") THEN Null
          ELSE IF input.imageUrl = Null THEN record.imageUrl
          ELSE IF record.imageUrl # Null /\ record.imageUrl # input.imageUrl
               THEN record.imageUrl ELSE Null
        updated ==
          [record EXCEPT
             !.name = IF Has(input, "name") THEN input.name ELSE @,
             !.imageUrl = IF Has(input, "imageUrl") THEN input.imageUrl ELSE @]
    IN
    /\ pets' = [pets EXCEPT ![petId] = updated]
    /\ UNCHANGED <<customers, treatments, visits, visitTreatments, visitNotes,
                   visitImages, issued, uiVars, hookVars, tasks>>
    /\ IF imageToDelete # Null /\ s3Fails
       THEN last' = InOrder(Outcome(op, args, "storage_error", <<>>, <<"updatePetById">>,
                                    <<S3Call("deleteObject", imageToDelete, FALSE)>>),
                            <<Step("db", "updatePetById", Null, TRUE),
                              Step("s3", "deleteObject", imageToDelete, FALSE)>>)
       ELSE last' = InOrder(Outcome(op, args, "ok", serializePet(petId, updated),
                                    <<"updatePetById">>,
                                    (IF imageToDelete # Null
                                     THEN <<S3Call("deleteObject", imageToDelete, TRUE)>>
                                     ELSE <<>>) \o PetDownloadCalls(updated)),
                            <<Step("db", "updatePetById", Null, TRUE)>>
                              \o (IF imageToDelete # Null
                                  THEN <<Step("s3", "deleteObject", imageToDelete, TRUE)>>
                                  ELSE <<>>)
                              \o [n \in 1..Len(PetDownloadCalls(updated)) |->
                                    Step("s3", "getPresignedDownloadUrl", updated.imageUrl, TRUE)])

(***************************************************************************)
(* customer-repository and pet-repository                                  *)
(***************************************************************************)
findActiveCustomersByUserId(userId) ==
  {c \in DOMAIN customers : customers[c].userId = userId /\ ~customers[c].isDeleted}

findActivePetsByCustomerId(customerId) ==
  {p \in DOMAIN pets : pets[p].customerId = customerId /\ ~pets[p].isDeleted}

countPetsForCustomer(customerId) ==
  Cardinality({p \in DOMAIN pets : pets[p].customerId = customerId /\ ~pets[p].isDeleted})

\* the counts of the customers that have at least one active pet
countPetsForCustomerIds(customerIds) ==
  [c \in {x \in customerIds : countPetsForCustomer(x) > 0} |-> countPetsForCustomer(c)]

(***************************************************************************)
(* customer-service: customers and pets                                    *)
(***************************************************************************)
buildCustomer(id, record, petsCount) ==
  [id |-> id, name |-> Trim(record.name), phone |-> cleanNullableString(record.phone),
   petsCount |-> petsCount]

listCustomersForUser(userId) ==
  LET records == findActiveCustomersByUserId(userId)
      counts == countPetsForCustomerIds(records)
  IN
  /\ last' = Outcome("listCustomersForUser", [userId |-> userId], "ok",
                     {buildCustomer(c, customers[c],
                                    IF c \in DOMAIN counts THEN counts[c] ELSE 0) :
                        c \in records},
                     <<>>, <<>>)
  /\ UNCHANGED <<dbVars, issued, uiVars, hookVars, tasks>>

createCustomerForUser(userId, input) ==
  LET id == CustomerIdPool[Cardinality(DOMAIN customers) + 1]
      record == [userId |-> userId, name |-> input.name,
                 phone |-> IF Has(input, "phone") THEN input.phone ELSE Null,
                 isDeleted |-> FALSE]
  IN
  /\ customers' = customers @@ (id :> record)
  /\ last' = Outcome("createCustomerForUser", [userId |-> userId, input |-> input], "ok",
                     buildCustomer(id, record, 0), <<"createCustomer">>, <<>>)
  /\ UNCHANGED <<pets, treatments, visits, visitTreatments, visitNotes, visitImages, issued, uiVars, hookVars, tasks>>

\* mutant: the count includes the soft-deleted pets
getCustomerForUser_CountsDeleted(userId, customerId) ==
  LET op == "getCustomerForUser"
      args == [userId |-> userId, customerId |-> customerId]
  IN
  IF findCustomerByIdForUser(userId, customerId) = {} THEN Throw(op, args, "not_found")
  ELSE
    /\ last' = Outcome(op, args, "ok",
                       buildCustomer(customerId, customers[customerId],
                                     Cardinality(findActivePetsByCustomerId(customerId)
                                                   \cup {p \in DOMAIN pets :
                                                            pets[p].customerId = customerId})),
                       <<>>, <<>>)
    /\ UNCHANGED <<dbVars, issued, uiVars, hookVars, tasks>>

getCustomerForUser(userId, customerId) ==
  LET op == "getCustomerForUser"
      args == [userId |-> userId, customerId |-> customerId]
  IN
  IF findCustomerByIdForUser(userId, customerId) = {} THEN Throw(op, args, "not_found")
  ELSE
    /\ last' = Outcome(op, args, "ok",
                       buildCustomer(customerId, customers[customerId],
                                     countPetsForCustomer(customerId)),
                       <<>>, <<>>)
    /\ UNCHANGED <<dbVars, issued, uiVars, hookVars, tasks>>

\* customer-repository updateCustomerById: the active row of this user
updateCustomerForUser(userId, customerId, input) ==
  LET op == "updateCustomerForUser"
      args == [userId |-> userId, customerId |-> customerId, input |-> input]
  IN
  IF findCustomerByIdForUser(userId, customerId) = {} THEN Throw(op, args, "not_found")
  ELSE
    LET record ==
          [customers[customerId] EXCEPT
             !.name = IF Has(input, "name") THEN input.name ELSE @,
             !.phone = IF Has(input, "phone") THEN input.phone ELSE @]
    IN
    /\ customers' = [customers EXCEPT ![customerId] = record]
    /\ last' = Outcome(op, args, "ok",
                       buildCustomer(customerId, record, countPetsForCustomer(customerId)),
                       <<"updateCustomerById">>, <<>>)
    /\ UNCHANGED <<pets, treatments, visits, visitTreatments, visitNotes, visitImages, issued, uiVars, hookVars, tasks>>

\* customer-repository softDeleteCustomerById: the active row of this user
deleteCustomerForUser(userId, customerId) ==
  LET op == "deleteCustomerForUser"
      args == [userId |-> userId, customerId |-> customerId]
  IN
  IF findCustomerByIdForUser(userId, customerId) = {} THEN Throw(op, args, "not_found")
  ELSE
    /\ customers' = [customers EXCEPT ![customerId].isDeleted = TRUE]
    /\ last' = Outcome(op, args, "ok", [ok |-> TRUE], <<"softDeleteCustomerById">>, <<>>)
    /\ UNCHANGED <<pets, treatments, visits, visitTreatments, visitNotes, visitImages, issued, uiVars, hookVars, tasks>>

\* the pets come back in no order the service fixes: the value is their set
listPetsForCustomer(customerId) ==
  LET records == findActivePetsByCustomerId(customerId) IN
  /\ last' = Outcome("listPetsForCustomer", [customerId |-> customerId], "ok",
                     {serializePet(p, pets[p]) : p \in records}, <<>>, <<>>)
  /\ UNCHANGED <<dbVars, issued, uiVars, hookVars, tasks>>

getPetForCustomer(customerId, petId) ==
  LET op == "getPetForCustomer"
      args == [customerId |-> customerId, petId |-> petId]
  IN
  IF findPetByIdForCustomer(customerId, petId) = {} THEN Throw(op, args, "not_found")
  ELSE
    /\ last' = Outcome(op, args, "ok", serializePet(petId, pets[petId]), <<>>,
                       PetDownloadCalls(pets[petId]))
    /\ UNCHANGED <<dbVars, issued, uiVars, hookVars, tasks>>

\* the pets table references the customers table: a row of no customer is refused
createPetForCustomer(customerId, input) ==
  LET op == "createPetForCustomer"
      args == [customerId |-> customerId, input |-> input]
      id == PetIdPool[Cardinality(DOMAIN pets) + 1]
      record == [customerId |-> customerId, name |-> input.name, imageUrl |-> Null,
                 isDeleted |-> FALSE]
  IN
  IF customerId \notin DOMAIN customers THEN Throw(op, args, "db_error")
  ELSE
    /\ pets' = pets @@ (id :> record)
    /\ last' = Outcome(op, args, "ok", serializePet(id, record), <<"createPet">>, <<>>)
    /\ UNCHANGED <<customers, treatments, visits, visitTreatments, visitNotes,
                   visitImages, issued, uiVars, hookVars, tasks>>

\* mutant: the pet row is left as it is
deletePetForCustomer_KeepsRow(customerId, petId) ==
  LET op == "deletePetForCustomer"
      args == [customerId |-> customerId, petId |-> petId]
  IN
  IF findPetByIdForCustomer(customerId, petId) = {} THEN Throw(op, args, "not_found")
  ELSE
    /\ last' = Outcome(op, args, "ok", [ok |-> TRUE], <<"softDeletePetById">>, <<>>)
    /\ UNCHANGED <<dbVars, issued, uiVars, hookVars, tasks>>

deletePetForCustomer(customerId, petId) ==
  LET op == "deletePetForCustomer"
      args == [customerId |-> customerId, petId |-> petId]
  IN
  IF findPetByIdForCustomer(customerId, petId) = {} THEN Throw(op, args, "not_found")
  ELSE
    /\ pets' = [pets EXCEPT ![petId].isDeleted = TRUE]
    /\ last' = Outcome(op, args, "ok", [ok |-> TRUE], <<"softDeletePetById">>, <<>>)
    /\ UNCHANGED <<customers, treatments, visits, visitTreatments, visitNotes,
                   visitImages, issued, uiVars, hookVars, tasks>>

(***************************************************************************)
(* Dashboard: visit-repository counts and dashboard-service                *)
(***************************************************************************)
\* the first and the last instant of the calendar month that holds now
startOfMonth(now) == (now \div MonthTicks) * MonthTicks
endOfMonth(now) == startOfMonth(now) + MonthTicks - 1

SumPrices(rows) ==
  IF rows = <<>> THEN 0
  ELSE (IF Head(rows).priceCents = NullNum THEN 0 ELSE Head(rows).priceCents)
         + SumPrices(Tail(rows))

\* the rows of   visits INNER JOIN customers LEFT JOIN visit_treatments
\* that pass the filter: one row <<visit, i>> for each treatment row i of the
\* visit, deleted or not, and one row <<visit, 0>> for a visit without any
VisitTreatmentJoin(userId, range) ==
  LET matching ==
        {v \in DOMAIN visits :
           /\ visits[v].customerId \in DOMAIN customers
           /\ customers[visits[v].customerId].userId = userId
           /\ ~visits[v].isDeleted
           /\ visits[v].scheduledStartAt >= range.start
           /\ visits[v].scheduledStartAt <= range.end}
      RowsOf(v) == {i \in 1..Len(visitTreatments) : visitTreatments[i].visitId = v}
  IN {<<v, i>> : v \in matching, i \in 0..Len(visitTreatments)}
       \cap {r \in (DOMAIN visits) \X (0..Len(visitTreatments)) :
               IF RowsOf(r[1]) = {} THEN r[2] = 0 ELSE r[2] \in RowsOf(r[1])}

\* count(visits.id) and sum(price_cents) over the joined rows
countVisitsByUserId(userId, range) ==
  LET joined == VisitTreatmentJoin(userId, range) IN
  [count |-> Cardinality(joined),
   revenue |-> SumPrices(SelectSeq(visitTreatments,
                           LAMBDA t : \E r \in joined : r[2] > 0 /\ visitTreatments[r[2]] = t
                                                        /\ t.visitId = r[1]))]

countActiveCustomersByUserId(userId) == Cardinality(findActiveCustomersByUserId(userId))
countActivePetsByUserId(userId) ==
  Cardinality(UNION {findActivePetsByCustomerId(c) : c \in findActiveCustomersByUserId(userId)})

getDashboardStats(userId, now) ==
  LET visitsData == countVisitsByUserId(userId, [start |-> startOfMonth(now),
                                                 end |-> endOfMonth(now)])
  IN
  /\ last' = Outcome("getDashboardStats", [userId |-> userId, now |-> now], "ok",
                     [activeCustomers |-> countActiveCustomersByUserId(userId),
                      activePets |-> countActivePetsByUserId(userId),
                      visitsThisMonth |-> visitsData.count,
                      totalRevenue |-> visitsData.revenue],
                     <<>>, <<>>)
  /\ UNCHANGED <<dbVars, issued, uiVars, hookVars, tasks>>

\* the ways to list the visits of S by scheduledStartAt ascending; visits at
\* the same instant come in any order
AscendingFrom(S) ==
  IF S = {} THEN {<<>>}
  ELSE UNION {{<<m>> \o r : r \in AscendingFrom(S \ {m})} :
                m \in {x \in S : \A y \in S :
                         visits[x].scheduledStartAt <= visits[y].scheduledStartAt}}

FirstRows(rows, limit) == SubSeq(rows, 1, IF Len(rows) < limit THEN Len(rows) ELSE limit)

\* mutant: the query has no LIMIT
findUpcomingVisitsByUserId_Unlimited(userId, limit, now) ==
  AscendingFrom({v \in DOMAIN visits :
                   /\ visits[v].customerId \in DOMAIN customers
                   /\ visits[v].petId \in DOMAIN pets
                   /\ customers[visits[v].customerId].userId = userId
                   /\ ~visits[v].isDeleted
                   /\ visits[v].status = "scheduled"
                   /\ visits[v].scheduledStartAt >= now})

\* mutant: the query does not look at the status
findUpcomingVisitsByUserId_AnyStatus(userId, limit, now) ==
  {FirstRows(o, limit) :
     o \in AscendingFrom({v \in DOMAIN visits :
                            /\ visits[v].customerId \in DOMAIN customers
                            /\ visits[v].petId \in DOMAIN pets
                            /\ customers[visits[v].customerId].userId = userId
                            /\ ~visits[v].isDeleted
                            /\ visits[v].scheduledStartAt >= now})}

\* now is the clock when the query runs
findUpcomingVisitsByUserId(userId, limit, now) ==
  {FirstRows(o, limit) :
     o \in AscendingFrom({v \in DOMAIN visits :
                            /\ visits[v].customerId \in DOMAIN customers
                            /\ visits[v].petId \in DOMAIN pets
                            /\ customers[visits[v].customerId].userId = userId
                            /\ ~visits[v].isDeleted
                            /\ visits[v].status = "scheduled"
                            /\ visits[v].scheduledStartAt >= now})}

getUpcomingVisits(userId, now) ==
  \E rows \in findUpcomingVisitsByUserId(userId, UpcomingLimit, now) :
    /\ last' = Outcome("getUpcomingVisits", [userId |-> userId, now |-> now], "ok",
                       [i \in 1..Len(rows) |->
                          [id |-> rows[i],
                           petName |-> pets[visits[rows[i]].petId].name,
                           customerName |-> customers[visits[rows[i]].customerId].name,
                           serviceType |-> IF visits[rows[i]].title = Null THEN <<"Visit">>
                                           ELSE visits[rows[i]].title,
                           date |-> visits[rows[i]].scheduledStartAt,
                           status |-> visits[rows[i]].status]],
                       <<>>, <<>>)
    /\ UNCHANGED <<dbVars, issued, uiVars, hookVars, tasks>>

(***************************************************************************)
(* ImageUpload (browser component).  A string is the sequence of its       *)
(* tokens; a file is its name, its MIME type, its size and the image the   *)
(* browser decodes from it: whether it loads, and its width and height.    *)
(***************************************************************************)
Lower(token) == IF token = "PNG" THEN "png" ELSE token
toLowerCase(str) == [i \in 1..Len(str) |-> Lower(str[i])]

EndsWith(str, suffix) ==
  /\ Len(suffix) <= Len(str)
  /\ SubSeq(str, Len(str) - Len(suffix) + 1, Len(str)) = suffix

Split(str, sep) ==
  LET at == {i \in 1..Len(str) : str[i] = sep} IN
  IF at = {} THEN <<str>>
  ELSE LET i == CHOOSE x \in at : \A y \in at : x <= y
       IN <<SubSeq(str, 1, i - 1)>> \o Split(SubSeq(str, i + 1, Len(str)), sep)

DefaultAccept == <<"image/png", ",", "image/jpeg", ",", "image/webp">>

\* an optional property is the set of its values: empty when it is not given
DefaultProps ==
  [accept |-> DefaultAccept, maxSizeBytes |-> MAX_FILE_SIZE_BYTES, minDimensions |-> {},
   maxDimensions |-> {}, initialImage |-> Null, disabled |-> FALSE]

\* the component right after it is mounted with properties p
Mounted(p) ==
  /\ props = p
  /\ uploadStage = "idle"
  /\ error = Null
  /\ preview = p.initialImage
  /\ runs = <<>>
  /\ calls = <<>>

validateFileType(file) ==
  LET parts == Split(props.accept, ",")
      acceptedTypes == [i \in 1..Len(parts) |-> Trim(parts[i])]
  IN \E i \in 1..Len(acceptedTypes) :
       LET type == acceptedTypes[i] IN
       IF StartsWith(type, <<".">>)
       THEN EndsWith(toLowerCase(file.name), toLowerCase(type))
       ELSE file.type = type

validateFileSize(file) == file.size <= props.maxSizeBytes

\* mutant: only the width of the image is compared with the limits
DimensionsError_WidthOnly(file) ==
  IF ~file.image.loads THEN "image-load-error"
  ELSE IF \E min \in props.minDimensions : file.image.width < min.width
  THEN "image-too-small"
  ELSE IF \E max \in props.maxDimensions : file.image.width > max.width
  THEN "image-too-large"
  ELSE "none"

\* validateImageDimensions once the image has loaded or failed to load: the
\* error it sets, "none" when it resolves true
DimensionsError(file) ==
  IF ~file.image.loads THEN "image-load-error"
  ELSE IF \E min \in props.minDimensions :
            file.image.width < min.width \/ file.image.height < min.height
  THEN "image-too-small"
  ELSE IF \E max \in props.maxDimensions :
            file.image.width > max.width \/ file.image.height > max.height
  THEN "image-too-large"
  ELSE "none"

\* url and key are "" until onUploadUrlRequest has resolved; settled lists
\* how the awaited calls of the run have ended so far
Run(file, pc) == [file |-> file, pc |-> pc, url |-> "", key |-> "", settled |-> <<>>]
Call(name, run, file, url, key) ==
  [call |-> name, run |-> run, file |-> file, url |-> url, key |-> key]

\* handleFileChange returns after a failed validation
Reject(r, file, message) ==
  /\ error' = message
  /\ runs' = IF r > Len(runs) THEN Append(runs, Run(file, "rejected"))
             ELSE [runs EXCEPT ![r].pc = "rejected"]
  /\ UNCHANGED <<uploadStage, preview, calls>>

\* handleFileChange from the preview to the call of onUploadUrlRequest
RequestUrl(r, file) ==
  /\ preview' = <<"blob", r>>
  /\ uploadStage' = "requesting-url"
  /\ calls' = Append(calls, Call("onUploadUrlRequest", r, file, "", ""))
  /\ runs' = IF r > Len(runs) THEN Append(runs, Run(file, "requesting-url"))
             ELSE [runs EXCEPT ![r].pc = "requesting-url"]

\* the catch and finally blocks; the message follows stageRef.current
Fail(r, how) ==
  /\ error' = CASE uploadStage = "requesting-url" -> "upload-url-error"
                [] uploadStage = "uploading-to-s3" -> "upload-error"
                [] uploadStage = "completing" -> "complete-error"
                [] OTHER -> "upload-failed"
  /\ preview' = props.initialImage
  /\ uploadStage' = "idle"
  /\ runs' = [runs EXCEPT ![r].pc = "failed", ![r].settled = Append(@, how)]
  /\ UNCHANGED calls

\* a file is picked; the button is disabled while an upload is under way
handleFileChange(file) ==
  /\ ~props.disabled
  /\ uploadStage = "idle"
  /\ LET r == Len(runs) + 1 IN
     IF ~validateFileType(file) THEN Reject(r, file, "unsupported-type")
     ELSE IF ~validateFileSize(file) THEN Reject(r, file, "file-too-large")
     ELSE IF props.minDimensions = {} /\ props.maxDimensions = {}
     THEN error' = Null /\ RequestUrl(r, file)
     ELSE /\ error' = Null
          /\ runs' = Append(runs, Run(file, "dimensions"))
          /\ UNCHANGED <<uploadStage, preview, calls>>
  /\ UNCHANGED <<dbVars, last, issued, props, hookVars, tasks>>

\* img.onload / img.onerror of validateImageDimensions
imageSettled(r) ==
  /\ runs[r].pc = "dimensions"
  /\ IF DimensionsError(runs[r].file) # "none"
     THEN Reject(r, runs[r].file, DimensionsError(runs[r].file))
     ELSE RequestUrl(r, runs[r].file) /\ UNCHANGED error
  /\ UNCHANGED <<dbVars, last, issued, props, hookVars, tasks>>

\* onUploadUrlRequest settles: it rejects, or resolves with a url and a key
uploadUrlSettled(r, resolved, result) ==
  /\ runs[r].pc = "requesting-url"
  /\ IF ~resolved THEN Fail(r, "rejected")
     ELSE /\ uploadStage' = "uploading-to-s3"
          /\ calls' = Append(calls, Call("PUT", r, runs[r].file, result.url, ""))
          /\ runs' = [runs EXCEPT ![r].pc = "uploading-to-s3", ![r].url = result.url,
                                  ![r].key = result.key,
                                  ![r].settled = Append(@, "resolved")]
          /\ UNCHANGED <<error, preview>>
  /\ UNCHANGED <<dbVars, last, issued, props, hookVars, tasks>>

\* mutant: the status of the response is not looked at
fetchSettled_IgnoresStatus(r, response) ==
  /\ runs[r].pc = "uploading-to-s3"
  /\ IF response = "rejected" THEN Fail(r, response)
     ELSE /\ uploadStage' = "completing"
          /\ calls' = Append(calls, Call("onUploadComplete", r, runs[r].file, "",
                                         runs[r].key))
          /\ runs' = [runs EXCEPT ![r].pc = "completing",
                                  ![r].settled = Append(@, response)]
          /\ UNCHANGED <<error, preview>>
  /\ UNCHANGED <<dbVars, last, issued, props, hookVars, tasks>>

\* the PUT settles: an ok response, a response that is not ok, or no response
fetchSettled(r, response) ==
  /\ runs[r].pc = "uploading-to-s3"
  /\ IF response # "ok" THEN Fail(r, response)
     ELSE /\ uploadStage' = "completing"
          /\ calls' = Append(calls, Call("onUploadComplete", r, runs[r].file, "",
                                         runs[r].key))
          /\ runs' = [runs EXCEPT ![r].pc = "completing",
                                  ![r].settled = Append(@, response)]
          /\ UNCHANGED <<error, preview>>
  /\ UNCHANGED <<dbVars, last, issued, props, hookVars, tasks>>

\* onUploadComplete settles; the effect on uploadStage resets the preview
uploadCompleteSettled(r, resolved) ==
  /\ runs[r].pc = "completing"
  /\ IF ~resolved THEN Fail(r, "rejected")
     ELSE /\ error' = Null
          /\ uploadStage' = "idle"
          /\ preview' = props.initialImage
          /\ runs' = [runs EXCEPT ![r].pc = "completed",
                                  ![r].settled = Append(@, "resolved")]
          /\ UNCHANGED calls
  /\ UNCHANGED <<dbVars, last, issued, props, hookVars, tasks>>

(***************************************************************************)
(* usePetUpdateMutation: the optimistic update of the cached pets list and *)
(* pet detail.  `hook` holds the parameters the hook was called with (a    *)
(* missing customerId is "", a missing petDetailQueryKey the empty set),   *)
(* `queryData` the query cache (a key without data is not in its domain),  *)
(* `invalidated` the keys invalidateQueries was called for, `mutations`    *)
(* the mutate calls so far: variables, context, what the server answered   *)
(* and whether another mutation was pending during it.                     *)
(***************************************************************************)
\* queryKeys.pets
petsKey(customerId) == <<"pets", customerId>>
petsQueryKey == petsKey(hook.customerId)
petDetailQueryKey == CHOOSE key \in hook.petDetailQueryKey : TRUE

NoQueries ==
  /\ hook = [customerId |-> "", petDetailQueryKey |-> {}]
  /\ queryData = <<>>
  /\ invalidated = {}
  /\ mutations = <<>>

\* utils/entityUpdates: the fields the payload defines replace the pet's
applyPetUpdates(pet, payload) ==
  [f \in DOMAIN pet |-> IF f \in DOMAIN payload THEN payload[f] ELSE pet[f]]

\* queryClient.setQueryData with a value
setQueryData(cache, key, value) ==
  [k \in DOMAIN cache \cup {key} |-> IF k = key THEN value ELSE cache[k]]

\* the pets list under petsQueryKey, (old = []) when there is none
OldPets(cache) == IF petsQueryKey \in DOMAIN cache THEN cache[petsQueryKey] ELSE <<>>

\* the cache after onMutate's two writes
onMutateWrites(cache, petId, payload) ==
  LET old == OldPets(cache)
      listed == setQueryData(cache, petsQueryKey,
                  [i \in 1..Len(old) |->
                     IF old[i].id = petId THEN applyPetUpdates(old[i], payload) ELSE old[i]])
  IN IF hook.petDetailQueryKey # {} /\ petDetailQueryKey \in DOMAIN cache
     THEN setQueryData(listed, petDetailQueryKey,
                       applyPetUpdates(cache[petDetailQueryKey], payload))
     ELSE listed

onMutateContext(cache, petId, payload) ==
  IF hook.customerId = ""
  THEN [previousPets |-> <<>>, previousPetDetail |-> {}]
  ELSE [previousPets |-> OldPets(cache),
        previousPetDetail |->
          IF hook.petDetailQueryKey # {} /\ petDetailQueryKey \in DOMAIN cache
          THEN {cache[petDetailQueryKey]} ELSE {}]

\* the cache after onError restored the context
onError(cache, context) ==
  LET listed == setQueryData(cache, petsQueryKey, context.previousPets)
  IN IF hook.petDetailQueryKey # {} /\ context.previousPetDetail # {}
     THEN setQueryData(listed, petDetailQueryKey,
                       CHOOSE pet \in context.previousPetDetail : TRUE)
     ELSE listed

targetId(data, petId) == IF data # {} THEN (CHOOSE pet \in data : TRUE).id ELSE petId

\* the cache after onSuccess; data is the server's pet, or empty for no body
onSuccess_KeepsOptimisticPet(cache, data, petId, payload) ==
  LET old == OldPets(cache)
      listed == setQueryData(cache, petsQueryKey,
                  [i \in 1..Len(old) |->
                     IF old[i].id = targetId(data, petId)
                     THEN applyPetUpdates(old[i], payload) ELSE old[i]])
  IN listed

onSuccess(cache, data, petId, payload) ==
  LET old == OldPets(cache)
      id == targetId(data, petId)
      listed == setQueryData(cache, petsQueryKey,
                  [i \in 1..Len(old) |->
                     IF old[i].id = id
                     THEN IF data # {} THEN CHOOSE pet \in data : TRUE
                          ELSE applyPetUpdates(old[i], payload)
                     ELSE old[i]])
      hasOld == petDetailQueryKey \in DOMAIN cache
  IN IF hook.petDetailQueryKey = {} THEN listed
     ELSE IF hasOld /\ cache[petDetailQueryKey].id # id THEN listed
     ELSE IF data # {}
          THEN setQueryData(listed, petDetailQueryKey, CHOOSE pet \in data : TRUE)
     ELSE IF hasOld
          THEN setQueryData(listed, petDetailQueryKey,
                            applyPetUpdates(cache[petDetailQueryKey], payload))
     ELSE listed

\* the keys onSettled invalidates
onSettled ==
  (IF hook.customerId # "" THEN {petsQueryKey} ELSE {}) \cup hook.petDetailQueryKey

Pending == {m \in 1..Len(mutations) : mutations[m].pc = "pending"}

\* mutate({petId, payload}): onMutate, and without a customer id the throw
\* of mutationFn with onError and onSettled behind it
mutate(petId, payload) ==
  LET context == onMutateContext(queryData, petId, payload)
      mutation == [petId |-> petId, payload |-> payload, context |-> context,
                   data |-> {}, alone |-> Pending = {}]
  IN /\ IF hook.customerId = ""
        THEN /\ queryData' = onError(queryData, context)
             /\ invalidated' = invalidated \cup onSettled
             /\ mutations' = Append(mutations, mutation @@ [pc |-> "error"])
        ELSE /\ queryData' = onMutateWrites(queryData, petId, payload)
             /\ mutations' =
                  Append([m \in 1..Len(mutations) |->
                            IF m \in Pending THEN [mutations[m] EXCEPT !.alone = FALSE]
                            ELSE mutations[m]],
                         mutation @@ [pc |-> "pending"])
             /\ UNCHANGED invalidated
     /\ UNCHANGED <<dbVars, last, issued, uiVars, hook, tasks>>

\* updatePet settles: onSuccess or onError, then onSettled
updatePetSettled(m, resolved, data) ==
  /\ m \in Pending
  /\ queryData' =
       IF resolved
       THEN onSuccess(queryData, data, mutations[m].petId, mutations[m].payload)
       ELSE onError(queryData, mutations[m].context)
  /\ invalidated' = invalidated \cup onSettled
  /\ mutations' = [mutations EXCEPT ![m].pc = IF resolved THEN "success" ELSE "error",
                                    ![m].data = IF resolved THEN data ELSE {}]
  /\ UNCHANGED <<dbVars, last, issued, uiVars, hook, tasks>>

(***************************************************************************)
(* Service calls in progress.  A call that awaits several repository or    *)
(* storage calls runs outside a transaction, and other calls run between   *)
(* its awaits: `tasks` holds each such call with the place it has reached  *)
(* (pc), what it has read so far, and how it ended.                        *)
(***************************************************************************)
\* createVisitForUser up to its first write: the two ownership checks
createVisitChecked(userId, input) ==
  LET own == ensureCustomerAndPetOwnership(userId, input.customerId, input.petId)
      task == [op |-> "createVisitForUser", userId |-> userId, input |-> input]
  IN /\ tasks' =
          Append(tasks,
            IF own = {} \/ ~ensureTreatmentsBelongToUser(userId, ItemsOf(input, "treatments"))
            THEN task @@ [pc |-> "thrown", err |-> "not_found", at |-> "ensure",
                          visitId |-> ""]
            ELSE task @@ [pc |-> "checked", err |-> "ok", at |-> "",
                          own |-> CHOOSE x \in own : TRUE, visitId |-> ""])
     /\ UNCHANGED <<dbVars, last, issued, uiVars, hookVars>>

\* await createVisit(values); failed: the insert throws, or returns no row
createVisitInserted(t, failed) ==
  /\ tasks[t].op = "createVisitForUser" /\ tasks[t].pc = "checked"
  /\ IF failed
     THEN /\ tasks' = [tasks EXCEPT ![t].pc = "thrown", ![t].err = "error",
                                    ![t].at = "createVisit"]
          /\ UNCHANGED visits
     ELSE /\ visits' = visits @@ (NextVisitId :> VisitInsertValues(tasks[t].own, tasks[t].input))
          /\ tasks' = [tasks EXCEPT ![t].pc = "createVisit", ![t].visitId = NextVisitId]
  /\ UNCHANGED <<customers, pets, treatments, visitTreatments, visitNotes, visitImages,
                 last, issued, uiVars, hookVars>>

\* await createVisitTreatments(treatmentsToCreate), when there are any
createVisitTreatments_RollsBack(t, failed) ==
  LET rows == treatmentsToCreate(tasks[t].visitId, tasks[t].input) IN
  /\ tasks[t].op = "createVisitForUser" /\ tasks[t].pc = "createVisit"
  /\ IF Len(rows) > 0 /\ failed
     THEN /\ tasks' = [tasks EXCEPT ![t].pc = "thrown", ![t].err = "error",
                                    ![t].at = "createVisitTreatments"]
          /\ visits' = [id \in DOMAIN visits \ {tasks[t].visitId} |-> visits[id]]
          /\ UNCHANGED visitTreatments
     ELSE /\ visitTreatments' = visitTreatments \o rows
          /\ tasks' = [tasks EXCEPT ![t].pc = "createVisitTreatments"]
          /\ UNCHANGED visits
  /\ UNCHANGED <<customers, pets, treatments, visitNotes, visitImages,
                 last, issued, uiVars, hookVars>>

createVisitTreatments(t, failed) ==
  LET rows == treatmentsToCreate(tasks[t].visitId, tasks[t].input) IN
  /\ tasks[t].op = "createVisitForUser" /\ tasks[t].pc = "createVisit"
  /\ IF Len(rows) > 0 /\ failed
     THEN /\ tasks' = [tasks EXCEPT ![t].pc = "thrown", ![t].err = "error",
                                    ![t].at = "createVisitTreatments"]
          /\ UNCHANGED visits
          /\ UNCHANGED visitTreatments
     ELSE /\ visitTreatments' = visitTreatments \o rows
          /\ tasks' = [tasks EXCEPT ![t].pc = "createVisitTreatments"]
          /\ UNCHANGED visits
  /\ UNCHANGED <<customers, pets, treatments, visitNotes, visitImages,
                 last, issued, uiVars, hookVars>>

\* await createVisitNotes(notesToCreate), when there are any, and the return
createVisitNotes(t, failed) ==
  LET rows == notesToCreate(tasks[t].visitId, tasks[t].input) IN
  /\ tasks[t].op = "createVisitForUser" /\ tasks[t].pc = "createVisitTreatments"
  /\ IF Len(rows) > 0 /\ failed
     THEN /\ tasks' = [tasks EXCEPT ![t].pc = "thrown", ![t].err = "error",
                                    ![t].at = "createVisitNotes"]
          /\ UNCHANGED visitNotes
     ELSE /\ visitNotes' = visitNotes \o rows
          /\ tasks' = [tasks EXCEPT ![t].pc = "returned"]
  /\ UNCHANGED <<customers, pets, treatments, visits, visitTreatments, visitImages,
                 last, issued, uiVars, hookVars>>

\* deleteVisitImage up to its storage call: the visit check and the lookup
deleteVisitImageFound(userId, visitId, imageId) ==
  LET found == findVisitImageById(imageId)
      task == [op |-> "deleteVisitImage", userId |-> userId, visitId |-> visitId,
               imageId |-> imageId, s3 |-> <<>>]
  IN /\ tasks' =
          Append(tasks,
            IF \/ ensureVisitBelongsToUser(userId, visitId) # "ok"
               \/ found = {}
               \/ \E i \in found : visitImages[i].visitId # visitId
            THEN task @@ [pc |-> "thrown", err |-> "not_found", at |-> "findVisitImageById",
                          row |-> 0]
            ELSE task @@ [pc |-> "findVisitImageById", err |-> "ok", at |-> "",
                          row |-> CHOOSE i \in found : TRUE])
     /\ UNCHANGED <<dbVars, last, issued, uiVars, hookVars>>

\* await s3Service.deleteObject(image.storageKey); a throw is logged only
deleteVisitImageStorage(t, s3Fails) ==
  /\ tasks[t].op = "deleteVisitImage" /\ tasks[t].pc = "findVisitImageById"
  /\ tasks' = [tasks EXCEPT
                 ![t].pc = "deleteObject",
                 ![t].s3 = Append(@, S3Call("deleteObject",
                                            visitImages[tasks[t].row].storageKey, ~s3Fails))]
  /\ UNCHANGED <<dbVars, last, issued, uiVars, hookVars>>

\* await deleteVisitImageRepo(imageId): the update of the row while it is
\* not deleted, and the return or the throw
deleteVisitImageRepo_AnyRow(t) ==
  LET rows == {i \in 1..Len(visitImages) : visitImages[i].id = tasks[t].imageId} IN
  /\ tasks[t].op = "deleteVisitImage" /\ tasks[t].pc = "deleteObject"
  /\ IF rows = {}
     THEN /\ tasks' = [tasks EXCEPT ![t].pc = "thrown", ![t].err = "error",
                                    ![t].at = "deleteVisitImage"]
          /\ UNCHANGED visitImages
     ELSE /\ visitImages' = [i \in 1..Len(visitImages) |->
                               IF i \in rows THEN [visitImages[i] EXCEPT !.isDeleted = TRUE]
                               ELSE visitImages[i]]
          /\ tasks' = [tasks EXCEPT ![t].pc = "returned"]
  /\ UNCHANGED <<customers, pets, treatments, visits, visitTreatments, visitNotes,
                 last, issued, uiVars, hookVars>>

deleteVisitImageRepo(t) ==
  LET rows == findVisitImageById(tasks[t].imageId) IN
  /\ tasks[t].op = "deleteVisitImage" /\ tasks[t].pc = "deleteObject"
  /\ IF rows = {}
     THEN /\ tasks' = [tasks EXCEPT ![t].pc = "thrown", ![t].err = "error",
                                    ![t].at = "deleteVisitImage"]
          /\ UNCHANGED visitImages
     ELSE /\ visitImages' = [i \in 1..Len(visitImages) |->
                               IF i \in rows THEN [visitImages[i] EXCEPT !.isDeleted = TRUE]
                               ELSE visitImages[i]]
          /\ tasks' = [tasks EXCEPT ![t].pc = "returned"]
  /\ UNCHANGED <<customers, pets, treatments, visits, visitTreatments, visitNotes,
                 last, issued, uiVars, hookVars>>

\* updatePetForCustomer up to its write: the lookup, the key check and the
\* choice of imageToDelete from the record as it was read
updatePetFound(customerId, petId, input, userId) ==
  LET task == [op |-> "updatePetForCustomer", customerId |-> customerId, petId |-> petId,
               input |-> input, userId |-> userId, s3 |-> <<>>]
      record == pets[petId]
  IN /\ tasks' =
          Append(tasks,
            IF findPetByIdForCustomer(customerId, petId) = {}
            THEN task @@ [pc |-> "thrown", err |-> "not_found", imageToDelete |-> Null]
            ELSE IF /\ Has(input, "imageUrl")
                    /\ input.imageUrl # Null
                    /\ ~validatePetImageKey(userId, customerId, petId, input.imageUrl)
            THEN task @@ [pc |-> "thrown", err |-> "invalid_storage_key",
                          imageToDelete |-> Null]
            ELSE task @@ [pc |-> "findPetByIdForCustomer", err |-> "ok",
                          imageToDelete |->
                            IF ~Has(input, "imageUrl") THEN Null
                            ELSE IF input.imageUrl = Null THEN record.imageUrl
                            ELSE IF record.imageUrl # Null /\ record.imageUrl # input.imageUrl
                                 THEN record.imageUrl ELSE Null])
     /\ UNCHANGED <<dbVars, last, issued, uiVars, hookVars>>

\* await updatePetById(petId, updates)
updatePetUpdated(t) ==
  LET input == tasks[t].input IN
  /\ tasks[t].op = "updatePetForCustomer" /\ tasks[t].pc = "findPetByIdForCustomer"
  /\ pets' = [pets EXCEPT
                ![tasks[t].petId].name = IF Has(input, "name") THEN input.name ELSE @,
                ![tasks[t].petId].imageUrl =
                   IF Has(input, "imageUrl") THEN input.imageUrl ELSE @]
  /\ tasks' = [tasks EXCEPT ![t].pc = "updatePetById"]
  /\ UNCHANGED <<customers, treatments, visits, visitTreatments, visitNotes, visitImages,
                 last, issued, uiVars, hookVars>>

\* await s3Service.deleteObject(imageToDelete), when there is one, and the
\* return
updatePetStorage(t, s3Fails) ==
  /\ tasks[t].op = "updatePetForCustomer" /\ tasks[t].pc = "updatePetById"
  /\ tasks' =
       IF tasks[t].imageToDelete = Null THEN [tasks EXCEPT ![t].pc = "returned"]
       ELSE [tasks EXCEPT
               ![t].pc = IF s3Fails THEN "thrown" ELSE "returned",
               ![t].err = IF s3Fails THEN "storage_error" ELSE "ok",
               ![t].s3 = Append(@, S3Call("deleteObject", tasks[t].imageToDelete, ~s3Fails))]
  /\ UNCHANGED <<dbVars, last, issued, uiVars, hookVars>>

(***************************************************************************)
(* Seeded database: what seedCustomer / seedPet / seedTreatment leave      *)
(* behind before the visit calls start                                     *)
(***************************************************************************)
NoCall ==
  [op |-> "none", args |-> <<>>, err |-> "ok", value |-> <<>>, writes |-> <<>>, s3 |-> <<>>,
   pre |-> <<>>]

CustomerRow(userId, name) ==
  [userId |-> userId, name |-> name, phone |-> Null, isDeleted |-> FALSE]
PetRow(customerId, name) ==
  [customerId |-> customerId, name |-> name, imageUrl |-> Null, isDeleted |-> FALSE]

SeedCustomers == ("c1" :> CustomerRow("u1", <<"a">>)) @@ ("c2" :> CustomerRow("u2", <<"a">>))
SeedPets == ("p1" :> PetRow("c1", <<"a">>)) @@ ("p2" :> PetRow("c1", <<"a">>))
              @@ ("p3" :> PetRow("c2", <<"a">>))
SeedTreatments == ("t1" :> [userId |-> "u1", isDeleted |-> FALSE])
                    @@ ("t2" :> [userId |-> "u2", isDeleted |-> FALSE])

Init ==
  /\ customers = SeedCustomers
  /\ pets = SeedPets
  /\ treatments = SeedTreatments
  /\ visits = <<>>
  /\ visitTreatments = <<>>
  /\ visitNotes = <<>>
  /\ visitImages = <<>>
  /\ last = NoCall
  /\ issued = {}
  /\ Mounted(DefaultProps)
  /\ NoQueries
  /\ tasks = <<>>

(***************************************************************************)
(* Request bodies of the visit specification                               *)
(***************************************************************************)
OneOwned == [treatments |-> <<[treatmentId |-> "t1", priceCents |-> 100]>>]
OneForeign == [treatments |-> <<[treatmentId |-> "t2"]>>]
Mixed == [treatments |-> <<[treatmentId |-> "t1"], [treatmentId |-> "t2"]>>]
EmptyTreatmentId == [treatments |-> <<[treatmentId |-> ""]>>]
OneNote == [notes |-> <<[note |-> <<" ", "a">>]>>]

VisitFields == [status |-> "completed", title |-> <<"a", " ">>]

CreateVisitBodies ==
  {[customerId |-> c, petId |-> p, scheduledStartAt |-> 1] @@ x :
     c \in {"c1", "c2"}, p \in {"p1", "p3"},
     x \in {EmptyRec, OneOwned @@ OneNote, OneForeign, Mixed @@ OneNote}}

UpdateVisitBodies ==
  {EmptyRec, OneNote, OneOwned, VisitFields, VisitFields @@ Mixed @@ OneNote,
   EmptyTreatmentId @@ OneNote}

VisitIdArgs == {VisitIdPool[i] : i \in 1..MaxVisits} \cup {GhostId}

\* the model stops adding rows at its bounds
VisitCaps ==
  /\ Cardinality(DOMAIN visits') <= MaxVisits
  /\ Len(visitTreatments') <= MaxTreatmentRows
  /\ Len(visitNotes') <= MaxNoteRows

CreateVisit ==
  \E u \in Users, b \in CreateVisitBodies : createVisitForUser(u, b) /\ VisitCaps
GetVisit == \E u \in Users, v \in VisitIdArgs : getVisitForUser(u, v)
UpdateVisit ==
  \E u \in Users, v \in VisitIdArgs, b \in UpdateVisitBodies :
    updateVisitForUser(u, v, b) /\ VisitCaps

Next == CreateVisit \/ GetVisit \/ UpdateVisit

Spec == Init /\ [][Next]_vars

(***************************************************************************)
(* Customers and pets                                                      *)
(***************************************************************************)
InitCrud ==
  /\ customers = <<>>
  /\ pets = <<>>
  /\ treatments = SeedTreatments
  /\ visits = <<>>
  /\ visitTreatments = <<>>
  /\ visitNotes = <<>>
  /\ visitImages = <<>>
  /\ last = NoCall
  /\ issued = {}
  /\ Mounted(DefaultProps)
  /\ NoQueries
  /\ tasks = <<>>

CrudCustomerArgs == {CustomerIdPool[i] : i \in 1..MaxCustomers} \cup {GhostId}
CrudPetArgs == {PetIdPool[i] : i \in 1..MaxPets} \cup {GhostId}

CrudListCustomers == \E u \in Users : listCustomersForUser(u)
CrudCreateCustomer ==
  \E u \in Users :
    /\ createCustomerForUser(u, [name |-> <<" ", "b">>])
    /\ Cardinality(DOMAIN customers') <= MaxCustomers
CrudGetCustomer == \E u \in Users, c \in CrudCustomerArgs : getCustomerForUser(u, c)
CrudUpdateCustomer ==
  \E u \in Users, c \in CrudCustomerArgs, b \in {EmptyRec, [name |-> <<" ", "b">>, phone |-> Null]} :
    updateCustomerForUser(u, c, b)
CrudDeleteCustomer == \E u \in Users, c \in CrudCustomerArgs : deleteCustomerForUser(u, c)
CrudListPets == \E c \in CrudCustomerArgs : listPetsForCustomer(c)
CrudCreatePet ==
  \E c \in CrudCustomerArgs :
    /\ createPetForCustomer(c, [name |-> <<"b">>])
    /\ Cardinality(DOMAIN pets') <= MaxPets
CrudDeletePet == \E c \in CrudCustomerArgs, p \in CrudPetArgs : deletePetForCustomer(c, p)

NextCrud ==
  \/ CrudListCustomers \/ CrudCreateCustomer \/ CrudGetCustomer \/ CrudUpdateCustomer
  \/ CrudDeleteCustomer \/ CrudListPets \/ CrudCreatePet \/ CrudDeletePet

SpecCrud == InitCrud /\ [][NextCrud]_vars

(***************************************************************************)
(* Visit images: the visits exist from the start, as createVisitForUser    *)
(* leaves them                                                             *)
(***************************************************************************)
SeedVisitRow(customerId, petId) ==
  [petId |-> petId, customerId |-> customerId, status |-> "scheduled",
   scheduledStartAt |-> 1, scheduledEndAt |-> NullNum, completedAt |-> NullNum,
   title |-> Null, description |-> Null, updatedAt |-> 0, isDeleted |-> FALSE]

SeedVisits ==
  ("v1" :> SeedVisitRow("c1", "p1")) @@ ("v2" :> SeedVisitRow("c1", "p1"))
    @@ ("v3" :> SeedVisitRow("c2", "p3"))

InitSeeded ==
  /\ customers = SeedCustomers
  /\ pets = SeedPets
  /\ treatments = SeedTreatments
  /\ visits = SeedVisits
  /\ visitTreatments = <<>>
  /\ visitNotes = <<>>
  /\ visitImages = <<>>
  /\ last = NoCall
  /\ issued = {}
  /\ Mounted(DefaultProps)
  /\ NoQueries
  /\ tasks = <<>>

SeededVisitIds == {"v1", "v2", "v3", GhostId}
Uuids == {"k1"}

\* keys a client may send: a well-formed key of every scope, a key with no file
\* name, a key of a pet the customer does not have, a pet profile key and keys
\* of no scope at all
ClientVisitKeys ==
  {buildPetScopePrefix(u, cp[1], cp[2]) \o <<"/", "visits", "/", v, "/", "k1">> :
     u \in Users, cp \in {<<"c1", "p1">>, <<"c2", "p3">>}, v \in {"v1", "v2", "v3"}}
OddKeys ==
  {buildPetScopePrefix("u1", "c1", "p1") \o <<"/", "visits", "/", "v1", "/">>,
   buildPetScopePrefix("u1", "c1", "p1") \o <<"/", "visits", "/", "v1">>,
   buildPetScopePrefix("u1", "c1", "p3") \o <<"/", "visits", "/", "v1", "/", "k1">>,
   buildPetScopePrefix("u1", "c1", "p1") \o <<"/", "profile-", "n1">>,
   <<"owner", "/", "key">>, <<>>}

ImageIdArgs == {ImageIdPool[i] : i \in 1..MaxImages} \cup {GhostId}

ImgAdd ==
  \E u \in Users, v \in SeededVisitIds, key \in ClientVisitKeys \cup OddKeys :
    addVisitImage(u, v, key) /\ Len(visitImages') <= MaxImages
ImgDelete ==
  \E u \in Users, v \in SeededVisitIds, i \in ImageIdArgs, s3Fails \in BOOLEAN :
    deleteVisitImage(u, v, i, s3Fails)

NextImages == ImgAdd \/ ImgDelete

SpecImages == InitSeeded /\ [][NextImages]_vars

(***************************************************************************)
(* Access to a visit: the five operations that start by resolving the      *)
(* visit for the caller                                                    *)
(***************************************************************************)
AccessVisitIds == {"v1", "v3", GhostId}
AccessKeys ==
  {buildPetScopePrefix("u1", "c1", "p1") \o <<"/", "visits", "/", "v1", "/", "k1">>,
   buildPetScopePrefix("u2", "c2", "p3") \o <<"/", "visits", "/", "v3", "/", "k1">>,
   <<"owner", "/", "key">>}

AccGetVisit == \E u \in Users, v \in AccessVisitIds : getVisitForUser(u, v)
AccUpdateVisit ==
  \E u \in Users, v \in AccessVisitIds, b \in {EmptyRec, VisitFields, EmptyTreatmentId} :
    updateVisitForUser(u, v, b)
AccUploadUrl ==
  \E u \in Users, v \in AccessVisitIds, k \in Uuids : getVisitImageUploadUrl(u, v, k)
AccAdd ==
  \E u \in Users, v \in AccessVisitIds, key \in AccessKeys :
    addVisitImage(u, v, key) /\ Len(visitImages') <= MaxImages
AccDelete ==
  \E u \in Users, v \in AccessVisitIds, i \in ImageIdArgs, s3Fails \in BOOLEAN :
    deleteVisitImage(u, v, i, s3Fails)

NextAccess == AccGetVisit \/ AccUpdateVisit \/ AccUploadUrl \/ AccAdd \/ AccDelete

SpecAccess == InitSeeded /\ [][NextAccess]_vars

(***************************************************************************)
(* Pet profile images                                                      *)
(***************************************************************************)
PetProfileKey(userId, customerId, petId, now) ==
  buildPetScopePrefix(userId, customerId, petId) \o <<"/", "profile-", now>>

\* keys a client may send as imageUrl: profile keys of this and of other pets
\* and users, a key without the profile- part, a visit key, keys of no scope
ClientPetKeys ==
  {PetProfileKey("u1", "c1", "p1", "n1"), PetProfileKey("u1", "c1", "p1", "n2"),
   PetProfileKey("u1", "c1", "p2", "n1"), PetProfileKey("u2", "c1", "p1", "n1"),
   PetProfileKey("u2", "c2", "p3", "n1"),
   buildPetScopePrefix("u1", "c1", "p1") \o <<"/", "profile">>,
   buildPetScopePrefix("u1", "c1", "p1") \o <<"/", "visits", "/", "v1", "/", "k1">>,
   <<"owner", "/", "key">>, <<>>}

UpdatePetBodies ==
  {[name |-> <<"b">>], [imageUrl |-> Null]}
    \cup {[imageUrl |-> k] : k \in ClientPetKeys}
    \cup {[name |-> <<"b">>, imageUrl |-> k] : k \in ClientPetKeys}

PetGet == \E c \in CustomerIds, q \in {"p1", "p2", GhostId} : getPetForCustomer(c, q)
PetUpdate ==
  \E c \in CustomerIds, q \in {"p1", "p2", GhostId}, u \in Users, b \in UpdatePetBodies,
     s3Fails \in BOOLEAN :
    updatePetForCustomer(c, q, b, u, s3Fails)

NextPets == PetGet \/ PetUpdate

SpecPets == Init /\ [][NextPets]_vars

(***************************************************************************)
(* Issue a key, then register it: the client sends back only keys the      *)
(* service handed out                                                      *)
(***************************************************************************)
Nows == {"n1"}
IssuedKeys == {i.key : i \in issued}

IssueVisitUrl ==
  \E u \in Users, v \in SeededVisitIds, k \in Uuids : getVisitImageUploadUrl(u, v, k)
IssueAdd ==
  \E u \in Users, v \in SeededVisitIds, key \in IssuedKeys :
    addVisitImage(u, v, key) /\ Len(visitImages') <= MaxImages
IssuePetUrl ==
  \E u \in Users, c \in CustomerIds, q \in PetIds, n \in Nows :
    getPetImageUploadUrl(u, c, q, n)
IssueUpdatePet ==
  \E a \in {<<"c1", "p1">>, <<"c1", "p2">>, <<"c2", "p3">>, <<"c1", "p3">>}, u \in Users,
     key \in IssuedKeys \cup {Null} :
    updatePetForCustomer(a[1], a[2], [imageUrl |-> key], u, FALSE)
IssueDeletePet == \E c \in CustomerIds, q \in PetIds : deletePetForCustomer(c, q)

NextIssue == IssueVisitUrl \/ IssueAdd \/ IssuePetUrl \/ IssueUpdatePet \/ IssueDeletePet

SpecIssue == InitSeeded /\ [][NextIssue]_vars

(***************************************************************************)
(* The visits of a pet: visits at different times, one of them soft-       *)
(* deleted from the start (the service has no operation that sets the flag *)
(* on a visit, the queries all filter on it)                               *)
(***************************************************************************)
InitListing ==
  /\ customers = SeedCustomers
  /\ pets = SeedPets
  /\ treatments = SeedTreatments
  /\ visits = ("v1" :> [SeedVisitRow("c1", "p1") EXCEPT !.isDeleted = TRUE,
                                                        !.scheduledStartAt = 2])
  /\ visitTreatments = <<>>
  /\ visitNotes = <<>>
  /\ visitImages = <<>>
  /\ last = NoCall
  /\ issued = {}
  /\ Mounted(DefaultProps)
  /\ NoQueries
  /\ tasks = <<>>

ListingBodies ==
  {[customerId |-> cp[1], petId |-> cp[2], scheduledStartAt |-> t] :
     cp \in {<<"c1", "p1">>, <<"c1", "p2">>, <<"c2", "p3">>}, t \in {1, 2}}

ListCreate ==
  \E u \in Users, b \in ListingBodies :
    createVisitForUser(u, b) /\ Cardinality(DOMAIN visits') <= MaxListed
ListForPet == \E q \in PetIds \cup {GhostId} : listVisitsForPet(q)

NextListing == ListCreate \/ ListForPet

SpecListing == InitListing /\ [][NextListing]_vars

(***************************************************************************)
(* Titles and descriptions: one visit, every short text over a letter and  *)
(* a blank                                                                 *)
(***************************************************************************)
Texts == UNION {[1..n -> {"a", " "}] : n \in 0..MaxTextLen}
TextFields ==
  {[title |-> x] : x \in Texts \cup {Null}}
    \cup {[description |-> x] : x \in Texts \cup {Null}}
    \cup {[title |-> x, description |-> x] : x \in Texts}
    \cup {EmptyRec}

TitleCreate ==
  \E b \in TextFields :
    /\ createVisitForUser("u1", [customerId |-> "c1", petId |-> "p1",
                                 scheduledStartAt |-> 1] @@ b)
    /\ Cardinality(DOMAIN visits') <= 1
TitleUpdate == \E b \in TextFields : updateVisitForUser("u1", "v1", b)
TitleGet == getVisitForUser("u1", "v1")

NextTitles == TitleCreate \/ TitleUpdate \/ TitleGet

SpecTitles == Init /\ [][NextTitles]_vars

(***************************************************************************)
(* Dashboard statistics: visits around the month of the call, without and  *)
(* with treatments, and one soft-deleted visit inside the month            *)
(***************************************************************************)
TwoOwned == [treatments |-> <<[treatmentId |-> "t1", priceCents |-> 100],
                              [treatmentId |-> "t1"]>>]
StatsBodies ==
  {[customerId |-> "c1", petId |-> "p1", scheduledStartAt |-> t] @@ x :
     t \in 1..(2 * MonthTicks), x \in {EmptyRec, OneOwned, TwoOwned}}
    \cup {[customerId |-> "c2", petId |-> "p3", scheduledStartAt |-> t] @@ x :
            t \in 1..(2 * MonthTicks), x \in {EmptyRec, OneForeign}}

StatsCreate ==
  \E u \in Users, b \in StatsBodies :
    /\ createVisitForUser(u, b)
    /\ Cardinality(DOMAIN visits') <= MaxListed
    /\ Len(visitTreatments') <= MaxTreatmentRows
StatsGet == \E u \in Users, now \in MonthTicks..(2 * MonthTicks - 1) : getDashboardStats(u, now)

NextStats == StatsCreate \/ StatsGet

SpecStats == InitListing /\ [][NextStats]_vars

(***************************************************************************)
(* Upcoming visits: seven scheduled visits of one user's customer at three *)
(* instants, one visit of the other user's customer, one soft-deleted      *)
(* visit; two of the visits change status and time                         *)
(***************************************************************************)
UpcomingSeedRow(customerId, petId, at, deleted) ==
  [SeedVisitRow(customerId, petId) EXCEPT !.scheduledStartAt = at, !.isDeleted = deleted]

InitUpcoming ==
  /\ customers = SeedCustomers
  /\ pets = SeedPets
  /\ treatments = SeedTreatments
  /\ visits = ("v1" :> UpcomingSeedRow("c1", "p1", 2, FALSE))
                @@ ("v2" :> UpcomingSeedRow("c1", "p2", 2, FALSE))
                @@ ("v3" :> UpcomingSeedRow("c1", "p1", 3, FALSE))
                @@ ("v4" :> UpcomingSeedRow("c1", "p2", 3, FALSE))
                @@ ("v5" :> UpcomingSeedRow("c1", "p1", 4, FALSE))
                @@ ("v6" :> UpcomingSeedRow("c1", "p2", 4, FALSE))
                @@ ("v7" :> UpcomingSeedRow("c2", "p3", 3, FALSE))
                @@ ("v8" :> UpcomingSeedRow("c1", "p1", 3, TRUE))
                @@ ("v9" :> UpcomingSeedRow("c1", "p2", 4, FALSE))
  /\ visitTreatments = <<>>
  /\ visitNotes = <<>>
  /\ visitImages = <<>>
  /\ last = NoCall
  /\ issued = {}
  /\ Mounted(DefaultProps)
  /\ NoQueries
  /\ tasks = <<>>

UpcomingUpdates ==
  {[status |-> x] : x \in {"scheduled", "completed", "cancelled"}}
    \cup {[scheduledStartAt |-> t] : t \in {1, 3}}
    \cup {[title |-> <<"a">>]}

UpcomingUpdate ==
  \E u \in Users, v \in {"v1", "v2"}, b \in UpcomingUpdates : updateVisitForUser(u, v, b)
UpcomingGet == \E u \in Users, now \in {2, 3} : getUpcomingVisits(u, now)

NextUpcoming == UpcomingUpdate \/ UpcomingGet

SpecUpcoming == InitUpcoming /\ [][NextUpcoming]_vars

(***************************************************************************)
(* ImageUpload: files that pass and files that fail each validation, under *)
(* the default properties and under properties with an extension in the    *)
(* accept list and limits on the dimensions                                *)
(***************************************************************************)
PropsChoices ==
  {DefaultProps,
   [DefaultProps EXCEPT !.accept = <<".", "png", ",", " ", "image/webp">>,
                        !.minDimensions = {[width |-> 2, height |-> 2]},
                        !.maxDimensions = {[width |-> 3, height |-> 3]}],
   [DefaultProps EXCEPT !.minDimensions = {[width |-> 2, height |-> 2]}]}

Photo ==
  [name |-> <<"photo", ".", "png">>, type |-> <<"image/png">>, size |-> MAX_FILE_SIZE_BYTES,
   image |-> [loads |-> TRUE, width |-> 2, height |-> 3]]

Files ==
  {Photo,
   [Photo EXCEPT !.name = <<"doc", ".", "pdf">>, !.type = <<"application/pdf">>],
   [Photo EXCEPT !.name = <<"photo", ".", "PNG">>, !.type = <<>>],
   [Photo EXCEPT !.size = MAX_FILE_SIZE_BYTES + 1],
   [Photo EXCEPT !.image = [loads |-> TRUE, width |-> 1, height |-> 2]],
   [Photo EXCEPT !.image = [loads |-> TRUE, width |-> 2, height |-> 1]],
   [Photo EXCEPT !.image = [loads |-> TRUE, width |-> 4, height |-> 3]],
   [Photo EXCEPT !.image = [loads |-> TRUE, width |-> 2, height |-> 4]],
   [Photo EXCEPT !.image = [loads |-> FALSE, width |-> 0, height |-> 0]]}

UploadTargets == {[url |-> "url1", key |-> "key1"], [url |-> "url2", key |-> "key2"]}

InitUpload ==
  /\ customers = SeedCustomers
  /\ pets = SeedPets
  /\ treatments = SeedTreatments
  /\ visits = <<>>
  /\ visitTreatments = <<>>
  /\ visitNotes = <<>>
  /\ visitImages = <<>>
  /\ last = NoCall
  /\ issued = {}
  /\ \E p \in PropsChoices : Mounted(p)
  /\ NoQueries
  /\ tasks = <<>>

UploadSelect == \E file \in Files : handleFileChange(file) /\ Len(runs') <= MaxRuns
UploadImage == \E r \in 1..Len(runs) : imageSettled(r)
UploadUrl ==
  \E r \in 1..Len(runs), resolved \in BOOLEAN, result \in UploadTargets :
    uploadUrlSettled(r, resolved, result)
UploadFetch ==
  \E r \in 1..Len(runs), response \in {"ok", "not-ok", "rejected"} : fetchSettled(r, response)
UploadDone == \E r \in 1..Len(runs), resolved \in BOOLEAN : uploadCompleteSettled(r, resolved)

NextUpload == UploadSelect \/ UploadImage \/ UploadUrl \/ UploadFetch \/ UploadDone

SpecUpload == InitUpload /\ [][NextUpload]_vars

\* files picked one after the other, the second possibly while the first is
\* still being validated, on a component that limits the dimensions
InitRace ==
  /\ customers = SeedCustomers
  /\ pets = SeedPets
  /\ treatments = SeedTreatments
  /\ visits = <<>>
  /\ visitTreatments = <<>>
  /\ visitNotes = <<>>
  /\ visitImages = <<>>
  /\ last = NoCall
  /\ issued = {}
  /\ \E p \in {q \in PropsChoices : q.minDimensions # {}} : Mounted(p)
  /\ NoQueries
  /\ tasks = <<>>

RaceSelect ==
  \E file \in {Photo, [Photo EXCEPT !.image = [loads |-> TRUE, width |-> 2, height |-> 1]]} :
    handleFileChange(file) /\ Len(runs') <= MaxPicks

NextRace == RaceSelect \/ UploadImage \/ UploadUrl \/ UploadFetch \/ UploadDone

SpecRace == InitRace /\ [][NextRace]_vars

(***************************************************************************)
(* The pet update mutation against a cache that holds, or does not hold,   *)
(* the customer's pets and one pet's detail                                *)
(***************************************************************************)
MaxMutations == 2

CachedPet(id) == [id |-> id, name |-> <<"a">>, breed |-> Null, imageUrl |-> Null]
\* what updatePet answers with a body: the server's pet after the update
ServerPet(id, payload) ==
  applyPetUpdates([id |-> id, name |-> <<"s">>, breed |-> <<"b">>, imageUrl |-> Null],
                  payload)
PetPayloads == {[name |-> <<"n">>, breed |-> <<"r">>], [imageUrl |-> <<"k">>]}
PetDetailKey == <<"pet", "p1">>

InitPetCache ==
  /\ customers = SeedCustomers
  /\ pets = SeedPets
  /\ treatments = SeedTreatments
  /\ visits = <<>>
  /\ visitTreatments = <<>>
  /\ visitNotes = <<>>
  /\ visitImages = <<>>
  /\ last = NoCall
  /\ issued = {}
  /\ Mounted(DefaultProps)
  /\ tasks = <<>>
  /\ invalidated = {}
  /\ mutations = <<>>
  /\ \E customerId \in {"c1", ""}, key \in {{}, {PetDetailKey}} :
       hook = [customerId |-> customerId, petDetailQueryKey |-> key]
  /\ \E list \in {{}, {<<CachedPet("p1")>>}, {<<CachedPet("p1"), CachedPet("p2")>>}},
        detail \in {{}, {CachedPet("p1")}, {CachedPet("p2")}} :
       queryData =
         [k \in {petsKey("c1") : l \in list} \cup {PetDetailKey : d \in detail} |->
            IF k = PetDetailKey THEN CHOOSE d \in detail : TRUE
            ELSE CHOOSE l \in list : TRUE]

PetMutate ==
  \E petId \in {"p1", "p2"}, payload \in PetPayloads :
    mutate(petId, payload) /\ Len(mutations') <= MaxMutations
PetSettled ==
  \E m \in 1..Len(mutations), resolved \in BOOLEAN :
    \E data \in {{}, {ServerPet(mutations[m].petId, mutations[m].payload)}} :
      updatePetSettled(m, resolved, data)

NextPetCache == PetMutate \/ PetSettled

SpecPetCache == InitPetCache /\ [][NextPetCache]_vars

(***************************************************************************)
(* createVisitForUser one await at a time, with other calls in between     *)
(***************************************************************************)
MaxTasks == 2

StepBodies ==
  {[customerId |-> "c1", petId |-> "p1", scheduledStartAt |-> 1] @@ x :
     x \in {EmptyRec, OneOwned @@ OneNote, OneForeign}}

CreateChecked ==
  \E u \in Users, b \in StepBodies : createVisitChecked(u, b) /\ Len(tasks') <= MaxTasks
CreateInserted ==
  \E t \in 1..Len(tasks), failed \in BOOLEAN : createVisitInserted(t, failed) /\ VisitCaps
CreateTreatments ==
  \E t \in 1..Len(tasks), failed \in BOOLEAN : createVisitTreatments(t, failed) /\ VisitCaps
CreateNotes ==
  \E t \in 1..Len(tasks), failed \in BOOLEAN : createVisitNotes(t, failed) /\ VisitCaps

NextCreateSteps ==
  CreateChecked \/ CreateInserted \/ CreateTreatments \/ CreateNotes \/ GetVisit

SpecCreateSteps == Init /\ [][NextCreateSteps]_vars

(***************************************************************************)
(* Partial updates of a visit that has every optional field set            *)
(***************************************************************************)
InitFields ==
  /\ customers = SeedCustomers
  /\ pets = SeedPets
  /\ treatments = SeedTreatments
  /\ visits = ("v1" :> [SeedVisitRow("c1", "p1") EXCEPT !.scheduledEndAt = 2, !.completedAt = 3,
                                                        !.title = <<"a">>,
                                                        !.description = <<"b">>])
                @@ ("v2" :> SeedVisitRow("c1", "p1"))
  /\ visitTreatments = <<>>
  /\ visitNotes = <<>>
  /\ visitImages = <<>>
  /\ last = NoCall
  /\ issued = {}
  /\ Mounted(DefaultProps)
  /\ NoQueries
  /\ tasks = <<>>

FieldBodies ==
  {OneNote, OneOwned, [status |-> "completed"], [scheduledEndAt |-> NullNum],
   [completedAt |-> NullNum], [scheduledStartAt |-> 2, title |-> Null],
   [customerId |-> "c2", petId |-> "p3", description |-> <<" ", "c">>]}

FieldsUpdate ==
  \E u \in Users, v \in {"v1", GhostId}, b \in FieldBodies :
    /\ updateVisitForUser(u, v, b)
    /\ Len(visitTreatments') <= MaxTreatmentRows
    /\ Len(visitNotes') <= MaxNoteRows

NextFields == FieldsUpdate

SpecFields == InitFields /\ [][NextFields]_vars

(***************************************************************************)
(* Visits created one await at a time while customers, pets and visits are *)
(* updated and deleted                                                     *)
(***************************************************************************)
OwnChecked ==
  \E a \in {<<"u1", "c1", "p1">>, <<"u1", "c2", "p3">>, <<"u2", "c2", "p3">>} :
    /\ createVisitChecked(a[1], [customerId |-> a[2], petId |-> a[3], scheduledStartAt |-> 1])
    /\ Len(tasks') <= MaxVisits
OwnUpdateVisit ==
  \E u \in Users, i \in 1..MaxVisits :
    updateVisitForUser(u, VisitIdPool[i], [customerId |-> "c2", petId |-> "p3", title |-> Null])
OwnDeleteCustomer ==
  \E a \in {<<"u1", "c1">>, <<"u2", "c2">>} : deleteCustomerForUser(a[1], a[2])
OwnDeletePet == \E a \in {<<"c1", "p1">>, <<"c2", "p3">>} : deletePetForCustomer(a[1], a[2])

NextOwnership ==
  \/ OwnChecked \/ CreateInserted \/ CreateTreatments \/ CreateNotes
  \/ OwnUpdateVisit \/ OwnDeleteCustomer \/ OwnDeletePet

SpecOwnership == Init /\ [][NextOwnership]_vars

(***************************************************************************)
(* deleteVisitImage calls for one stored image, one await at a time        *)
(***************************************************************************)
StoredImage ==
  [id |-> ImageIdPool[1], visitId |-> "v1",
   storageKey |-> buildPetScopePrefix("u1", "c1", "p1")
                    \o <<"/", "visits", "/", "v1", "/", "k1">>,
   isDeleted |-> FALSE]

InitImageRace ==
  /\ customers = SeedCustomers
  /\ pets = SeedPets
  /\ treatments = SeedTreatments
  /\ visits = SeedVisits
  /\ visitTreatments = <<>>
  /\ visitNotes = <<>>
  /\ visitImages = <<StoredImage>>
  /\ last = NoCall
  /\ issued = {}
  /\ Mounted(DefaultProps)
  /\ NoQueries
  /\ tasks = <<>>

ImageRaceFound ==
  \E a \in {<<"u1", "v1">>, <<"u1", "v2">>, <<"u2", "v1">>} :
    deleteVisitImageFound(a[1], a[2], ImageIdPool[1]) /\ Len(tasks') <= MaxTasks
ImageRaceStorage ==
  \E t \in 1..Len(tasks), s3Fails \in BOOLEAN : deleteVisitImageStorage(t, s3Fails)
ImageRaceRepo == \E t \in 1..Len(tasks) : deleteVisitImageRepo(t)
ImageRaceGet == \E u \in Users : getVisitForUser(u, "v1")

NextImageRace == ImageRaceFound \/ ImageRaceStorage \/ ImageRaceRepo \/ ImageRaceGet

SpecImageRace == InitImageRace /\ [][NextImageRace]_vars

(***************************************************************************)
(* updatePetForCustomer calls on one pet that has an image, one await at a *)
(* time; every call brings a key of its own, as getPetImageUploadUrl       *)
(* issues them, or clears the image                                        *)
(***************************************************************************)
FirstPetKey == PetProfileKey("u1", "c1", "p1", "n0")

InitPetRace ==
  /\ customers = SeedCustomers
  /\ pets = [SeedPets EXCEPT !["p1"].imageUrl = FirstPetKey]
  /\ treatments = SeedTreatments
  /\ visits = <<>>
  /\ visitTreatments = <<>>
  /\ visitNotes = <<>>
  /\ visitImages = <<>>
  /\ last = NoCall
  /\ issued = {}
  /\ Mounted(DefaultProps)
  /\ NoQueries
  /\ tasks = <<>>

\* the key of the n-th call
NthPetKey(n) == PetProfileKey("u1", "c1", "p1", <<"n1", "n2", "n3", "n4">>[n])

PetRaceFound ==
  \E b \in {[imageUrl |-> NthPetKey(Len(tasks) + 1)], [imageUrl |-> Null],
             [name |-> <<"b">>]} :
    updatePetFound("c1", "p1", b, "u1") /\ Len(tasks') <= MaxTasks
PetRaceUpdated == \E t \in 1..Len(tasks) : updatePetUpdated(t)
PetRaceStorage == \E t \in 1..Len(tasks), s3Fails \in BOOLEAN : updatePetStorage(t, s3Fails)
PetRaceGet == getPetForCustomer("c1", "p1")

NextPetRace == PetRaceFound \/ PetRaceUpdated \/ PetRaceStorage \/ PetRaceGet

SpecPetRace == InitPetRace /\ [][NextPetRace]_vars

(***************************************************************************)
(* Claims                                                                  *)
(***************************************************************************)
\* the user who owns the customer of a visit, in database db
VisitOwner(db, visitId) == db.customers[db.visits[visitId].customerId].userId

CalledOnForeignVisit ==
  /\ last.op \in {"getVisitForUser", "updateVisitForUser"}
  /\ last.args.visitId \in DOMAIN last.pre.visits
  /\ VisitOwner(last.pre, last.args.visitId) # last.args.userId

\* C1: getVisitForUser and updateVisitForUser called, with any body, by a user
\* other than the owner of the visit's customer throw not-found and leave the
\* whole database (visit fields, notes, treatments) as it was.
C1_ForeignVisitNotFound ==
  CalledOnForeignVisit => (last.err = "not_found" /\ Db = last.pre)

\* an intruder's update carrying field changes was answered not-found
C1_Witness ==
  /\ CalledOnForeignVisit
  /\ last.op = "updateVisitForUser"
  /\ Has(last.args.input, "status")
  /\ last.err = "not_found"

\* the customer of the body belongs to the caller and the pet to that customer
CreateChainHolds ==
  LET u == last.args.userId
      c == last.args.input.customerId
      p == last.args.input.petId
  IN /\ c \in DOMAIN last.pre.customers
     /\ last.pre.customers[c].userId = u
     /\ p \in DOMAIN last.pre.pets
     /\ last.pre.pets[p].customerId = c

\* C9: createVisitForUser throws not-found and writes no visit, treatment or
\* note row unless the customer is the caller's and the pet is that customer's.
C9_CreateNeedsOwnedChain ==
  (last.op = "createVisitForUser" /\ ~CreateChainHolds)
    => (last.err = "not_found" /\ Db = last.pre)

\* the caller's own customer with another customer's pet, notes supplied
C9_Witness ==
  /\ last.op = "createVisitForUser"
  /\ last.pre.customers[last.args.input.customerId].userId = last.args.userId
  /\ last.pre.pets[last.args.input.petId].customerId # last.args.input.customerId
  /\ Has(last.args.input, "notes")
  /\ last.err = "not_found"

\* some supplied treatmentId is not a treatment of the caller
SuppliesForeignTreatment ==
  /\ last.op \in {"createVisitForUser", "updateVisitForUser"}
  /\ Has(last.args.input, "treatments")
  /\ \E i \in 1..Len(last.args.input.treatments) :
       LET t == last.args.input.treatments[i].treatmentId IN
       \/ t \notin DOMAIN last.pre.treatments
       \/ last.pre.treatments[t].userId # last.args.userId

SuppliesOwnedTreatment ==
  /\ Has(last.args.input, "treatments")
  /\ \E i \in 1..Len(last.args.input.treatments) :
       LET t == last.args.input.treatments[i].treatmentId IN
       /\ t \in DOMAIN last.pre.treatments
       /\ last.pre.treatments[t].userId = last.args.userId

\* C10: a create or update that supplies a treatmentId the caller does not
\* own throws not-found, whatever else it supplies, and writes nothing.
C10_ForeignTreatmentRejected ==
  SuppliesForeignTreatment => (last.err = "not_found" /\ Db = last.pre)

\* the owner of a visit updates it with one owned and one foreign treatment,
\* field changes and a note
C10_Witness ==
  /\ SuppliesForeignTreatment
  /\ SuppliesOwnedTreatment
  /\ last.op = "updateVisitForUser"
  /\ last.args.visitId \in DOMAIN last.pre.visits
  /\ VisitOwner(last.pre, last.args.visitId) = last.args.userId
  /\ Has(last.args.input, "status")
  /\ Has(last.args.input, "notes")
  /\ last.err = "not_found"

\* the prefix a key of this visit has for this caller, in database db
VisitKeyPrefix(db, userId, visitId) ==
  <<userId, "/", db.visits[visitId].customerId, "/", db.visits[visitId].petId,
    "/", "visits", "/", visitId, "/">>

AddCalledByOwner ==
  /\ last.op = "addVisitImage"
  /\ last.args.visitId \in DOMAIN last.pre.visits
  /\ VisitOwner(last.pre, last.args.visitId) = last.args.userId

VisitScopedOps ==
  {"getVisitForUser", "updateVisitForUser", "getVisitImageUploadUrl", "addVisitImage",
   "deleteVisitImage"}

CalledOnMissingVisit ==
  /\ last.op \in VisitScopedOps
  /\ last.args.visitId \notin DOMAIN last.pre.visits

CalledOnOthersVisit ==
  /\ last.op \in VisitScopedOps
  /\ last.args.visitId \in DOMAIN last.pre.visits
  /\ VisitOwner(last.pre, last.args.visitId) # last.args.userId

\* C4: the five operations on a visit answer a visit of another user exactly as
\* they answer a visit id that does not exist: the not-found error and nothing
\* else, with no database write and no object-storage call made.
C4_ForeignLooksMissing ==
  (CalledOnMissingVisit \/ CalledOnOthersVisit) =>
    /\ last.err = "not_found"
    /\ last.value = <<>>
    /\ last.writes = <<>>
    /\ last.s3 = <<>>
    /\ Db = last.pre

\* another user asked to delete an image that the visit really has
C4_Witness ==
  /\ CalledOnOthersVisit
  /\ last.op = "deleteVisitImage"
  /\ \E i \in 1..Len(last.pre.visitImages) :
       /\ last.pre.visitImages[i].id = last.args.imageId
       /\ last.pre.visitImages[i].visitId = last.args.visitId
       /\ ~last.pre.visitImages[i].isDeleted
  /\ last.err = "not_found"

\* the pet is a non-deleted pet of the customer, in database db
IsPetOf(db, customerId, petId) ==
  /\ petId \in DOMAIN db.pets
  /\ db.pets[petId].customerId = customerId
  /\ ~db.pets[petId].isDeleted

\* the call registers a key that was issued for another pet, for another user
\* or for a visit
RegistersOthersPetKey ==
  /\ last.op = "updatePetForCustomer"
  /\ \E i \in issued :
       /\ i.key = last.args.input.imageUrl
       /\ \/ i.kind # "pet"
          \/ i.petId # last.args.petId
          \/ i.customerId # last.args.customerId
          \/ i.userId # last.args.userId

\* the call registers a key that was issued for another visit, for another
\* user or for a pet
RegistersOthersVisitKey ==
  /\ last.op = "addVisitImage"
  /\ \E i \in issued :
       /\ i.key = last.args.key
       /\ \/ i.kind # "visit"
          \/ i.visitId # last.args.visitId
          \/ i.userId # last.args.userId

\* C3: a key issued for one pet is refused as the imageUrl of any other pet,
\* with invalid_storage_key when that pet is a pet of the customer named in the
\* call; a key issued for one visit is refused by addVisitImage for every
\* other visit and every other user; nothing is written on a refusal, and no
\* pet and no visit image ever holds a key that was issued for another
\* resource.
C3_KeysIsolatedPerResource ==
  /\ RegistersOthersPetKey =>
       /\ last.err \in {"invalid_storage_key", "not_found"}
       /\ IsPetOf(last.pre, last.args.customerId, last.args.petId)
            => last.err = "invalid_storage_key"
       /\ Db = last.pre
  /\ RegistersOthersVisitKey =>
       /\ last.err \in {"invalid_storage_key", "not_found"}
       /\ Db = last.pre
  /\ \A q \in DOMAIN pets : \A i \in issued :
       pets[q].imageUrl = i.key =>
         (i.kind = "pet" /\ i.petId = q /\ i.customerId = pets[q].customerId)
  /\ \A n \in 1..Len(visitImages) : \A i \in issued :
       visitImages[n].storageKey = i.key =>
         (i.kind = "visit" /\ i.visitId = visitImages[n].visitId)

\* the key issued for one pet was sent for another pet of the same customer
C3_Witness ==
  /\ RegistersOthersPetKey
  /\ \E i \in issued :
       /\ i.key = last.args.input.imageUrl
       /\ i.kind = "pet"
       /\ i.customerId = last.args.customerId
       /\ i.userId = last.args.userId
       /\ IsPetOf(last.pre, i.customerId, i.petId)
  /\ IsPetOf(last.pre, last.args.customerId, last.args.petId)
  /\ last.err = "invalid_storage_key"

\* the call registers the key issued to this user for this visit, and the visit
\* still has the customer and pet it had
RegistersOwnVisitKey ==
  /\ last.op = "addVisitImage"
  /\ last.args.visitId \in DOMAIN last.pre.visits
  /\ \E i \in issued :
       /\ i.kind = "visit"
       /\ i.key = last.args.key
       /\ i.userId = last.args.userId
       /\ i.visitId = last.args.visitId
       /\ last.pre.visits[i.visitId].customerId = i.customerId
       /\ last.pre.visits[i.visitId].petId = i.petId
       /\ last.pre.customers[i.customerId].userId = i.userId

\* the call registers the key issued to this user for this pet of this
\* customer, and the pet is still a pet of the customer
RegistersOwnPetKey ==
  /\ last.op = "updatePetForCustomer"
  /\ IsPetOf(last.pre, last.args.customerId, last.args.petId)
  /\ \E i \in issued :
       /\ i.kind = "pet"
       /\ i.key = last.args.input.imageUrl
       /\ i.userId = last.args.userId
       /\ i.customerId = last.args.customerId
       /\ i.petId = last.args.petId

PetKeyPrefix(userId, customerId, petId) ==
  <<userId, "/", customerId, "/", petId, "/", "profile-">>

UpdateWithBadImageUrl ==
  /\ last.op = "updatePetForCustomer"
  /\ IsPetOf(last.pre, last.args.customerId, last.args.petId)
  /\ Has(last.args.input, "imageUrl")
  /\ last.args.input.imageUrl # Null
  /\ ~StartsWith(last.args.input.imageUrl,
                 PetKeyPrefix(last.args.userId, last.args.customerId, last.args.petId))

\* C6: updatePetForCustomer on a pet of the customer with a non-null imageUrl
\* that does not start with <userId>/<customerId>/<petId>/profile- throws
\* invalid_storage_key, leaves the pet row and the rest of the database as they
\* were, fields sent in the same request included, and calls no storage
\* operation.
C6_BadImageUrlChangesNothing ==
  UpdateWithBadImageUrl =>
    /\ last.err = "invalid_storage_key"
    /\ Db = last.pre
    /\ last.writes = <<>>
    /\ last.s3 = <<>>

\* a pet that has an image was sent a new name with the key of another pet
C6_Witness ==
  /\ UpdateWithBadImageUrl
  /\ Has(last.args.input, "name")
  /\ last.args.input.name # last.pre.pets[last.args.petId].name
  /\ last.pre.pets[last.args.petId].imageUrl # Null
  /\ last.args.input.imageUrl = <<"u1", "/", "c1", "/", "p2", "/", "profile-", "n1">>
  /\ last.args.petId = "p1"
  /\ last.err = "invalid_storage_key"

\* the non-deleted pets of a customer, in database db
ActivePetsOf(db, customerId) ==
  {q \in DOMAIN db.pets : db.pets[q].customerId = customerId /\ ~db.pets[q].isDeleted}

\* C7: listPetsForCustomer(c) returns exactly the non-deleted pets of c;
\* deletePetForCustomer marks its pet deleted and touches no other pet,
\* createPetForCustomer adds one non-deleted pet and touches no other pet, and
\* no operation brings a deleted pet back.
C7_ListingIsActivePets ==
  /\ last.op = "listPetsForCustomer" =>
       {x.id : x \in last.value} = ActivePetsOf(Db, last.args.customerId)
  /\ (last.op = "deletePetForCustomer" /\ last.err = "ok") =>
       /\ pets[last.args.petId].isDeleted
       /\ \A q \in DOMAIN pets \ {last.args.petId} : pets[q] = last.pre.pets[q]
  /\ (last.op = "createPetForCustomer" /\ last.err = "ok") =>
       /\ last.value.id \notin DOMAIN last.pre.pets
       /\ ActivePetsOf(Db, last.args.customerId)
            = ActivePetsOf(last.pre, last.args.customerId) \cup {last.value.id}
       /\ \A q \in DOMAIN last.pre.pets : pets[q] = last.pre.pets[q]
  /\ last.op # "none" =>
       \A q \in DOMAIN last.pre.pets : last.pre.pets[q].isDeleted => pets[q].isDeleted

\* the listing of a customer with one deleted pet and one pet created later
C7_Witness ==
  /\ last.op = "listPetsForCustomer"
  /\ last.value # {}
  /\ \E q \in DOMAIN pets :
       /\ pets[q].customerId = last.args.customerId
       /\ pets[q].isDeleted
       /\ q \notin {x.id : x \in last.value}

\* C8: the petsCount that listCustomersForUser, getCustomerForUser and
\* updateCustomerForUser report for a customer is the number of its non-deleted
\* pets, so the three agree; createCustomerForUser reports 0 for a customer
\* that has no pet.
C8_PetsCountIsActivePets ==
  /\ (last.op \in {"getCustomerForUser", "updateCustomerForUser"} /\ last.err = "ok") =>
       /\ last.value.id = last.args.customerId
       /\ last.value.petsCount = Cardinality(ActivePetsOf(Db, last.args.customerId))
  /\ last.op = "listCustomersForUser" =>
       \A x \in last.value : x.petsCount = Cardinality(ActivePetsOf(Db, x.id))
  /\ last.op = "createCustomerForUser" =>
       /\ last.value.petsCount = 0
       /\ ActivePetsOf(Db, last.value.id) = {}

\* a customer with a deleted pet and a live pet is reported with one pet
C8_Witness ==
  /\ last.op = "getCustomerForUser"
  /\ last.err = "ok"
  /\ last.value.petsCount = 1
  /\ \E q \in DOMAIN pets : pets[q].customerId = last.args.customerId /\ pets[q].isDeleted

\* the caller owns the visit and the image is an active image of that visit
DeletesOwnImage ==
  /\ last.op = "deleteVisitImage"
  /\ last.args.visitId \in DOMAIN last.pre.visits
  /\ VisitOwner(last.pre, last.args.visitId) = last.args.userId
  /\ \E n \in 1..Len(last.pre.visitImages) :
       /\ last.pre.visitImages[n].id = last.args.imageId
       /\ last.pre.visitImages[n].visitId = last.args.visitId
       /\ ~last.pre.visitImages[n].isDeleted

\* C11: deleteVisitImage on an active image of the caller's visit marks the
\* record deleted and returns it whether or not the storage delete throws; the
\* storage delete of the image's key is the first step and the soft delete
\* comes after it.
C11_SoftDeleteSurvivesStorageFailure ==
  DeletesOwnImage =>
    /\ last.err = "ok"
    /\ last.value.id = last.args.imageId
    /\ \A n \in 1..Len(visitImages) :
         visitImages[n] =
           IF last.pre.visitImages[n].id = last.args.imageId
           THEN [last.pre.visitImages[n] EXCEPT !.isDeleted = TRUE]
           ELSE last.pre.visitImages[n]
    /\ Len(visitImages) = Len(last.pre.visitImages)
    /\ Len(last.steps) >= 2
    /\ last.steps[1].kind = "s3" /\ last.steps[1].call = "deleteObject"
    /\ \E n \in 1..Len(last.pre.visitImages) :
         /\ last.pre.visitImages[n].id = last.args.imageId
         /\ last.steps[1].key = last.pre.visitImages[n].storageKey
    /\ last.steps[2].kind = "db" /\ last.steps[2].call = "deleteVisitImage"

\* the storage delete threw and the image is deleted all the same
C11_Witness ==
  /\ DeletesOwnImage
  /\ ~last.steps[1].ok
  /\ last.err = "ok"
  /\ \E n \in 1..Len(visitImages) :
       visitImages[n].id = last.args.imageId /\ visitImages[n].isDeleted

\* the caller owns the named visit and the image is an active image of
\* another visit
DeletesImageOfOtherVisit ==
  /\ last.op = "deleteVisitImage"
  /\ last.args.visitId \in DOMAIN last.pre.visits
  /\ VisitOwner(last.pre, last.args.visitId) = last.args.userId
  /\ \E n \in 1..Len(last.pre.visitImages) :
       /\ last.pre.visitImages[n].id = last.args.imageId
       /\ last.pre.visitImages[n].visitId # last.args.visitId
       /\ ~last.pre.visitImages[n].isDeleted

\* C12: deleteVisitImage called by the owner of the named visit for an image
\* of another visit throws not-found, makes no storage call and leaves the
\* image record, and the rest of the database, as it was.
C12_ImageOfOtherVisitNotFound ==
  DeletesImageOfOtherVisit =>
    /\ last.err = "not_found"
    /\ last.s3 = <<>>
    /\ last.writes = <<>>
    /\ Db = last.pre
    /\ \A n \in 1..Len(visitImages) :
         visitImages[n].id = last.args.imageId => ~visitImages[n].isDeleted

\* the image belongs to another visit of the same caller
C12_Witness ==
  /\ DeletesImageOfOtherVisit
  /\ \E n \in 1..Len(last.pre.visitImages) :
       /\ last.pre.visitImages[n].id = last.args.imageId
       /\ VisitOwner(last.pre, last.pre.visitImages[n].visitId) = last.args.userId
  /\ last.err = "not_found"

\* the rows of a visit in a table, in table order
RowsOfVisit(rows, visitId) == SelectSeq(rows, LAMBDA r : r.visitId = visitId)

\* a list of rows is in ascending creation time
AscendingByCreatedAt(rows) ==
  \A i \in 1..Len(rows) : \A j \in i..Len(rows) : rows[i].createdAt <= rows[j].createdAt

C14_PetVisitsLatestFirst ==
  last.op = "listVisitsForPet" =>
    /\ {last.value[i].id : i \in 1..Len(last.value)}
         = {v \in DOMAIN last.pre.visits :
              last.pre.visits[v].petId = last.args.petId /\ ~last.pre.visits[v].isDeleted}
    /\ \A i, j \in 1..Len(last.value) : i # j => last.value[i].id # last.value[j].id
    /\ \A i \in 1..Len(last.value) :
         /\ last.value[i].petId = last.args.petId
         /\ last.value[i].scheduledStartAt
              = last.pre.visits[last.value[i].id].scheduledStartAt
    /\ \A i \in 1..Len(last.value) : \A j \in i..Len(last.value) :
         last.value[i].scheduledStartAt >= last.value[j].scheduledStartAt

\* a pet with a deleted visit and two visits at different times was listed
C14_Witness ==
  /\ last.op = "listVisitsForPet"
  /\ Len(last.value) = 2
  /\ last.value[1].scheduledStartAt > last.value[2].scheduledStartAt
  /\ \E v \in DOMAIN last.pre.visits :
       last.pre.visits[v].petId = last.args.petId /\ last.pre.visits[v].isDeleted

Blanks(n) == [i \in 1..n |-> " "]

\* stored is what sent becomes: null for null, for the empty text and for
\* blanks only, otherwise the text between its first and its last non-blank
IsNormalFormOf(stored, sent) ==
  IF sent = Null \/ \A i \in 1..Len(sent) : sent[i] = " "
  THEN stored = Null
  ELSE /\ stored # Null
       /\ stored[1] # " " /\ stored[Len(stored)] # " "
       /\ \E i, j \in 0..Len(sent) : sent = Blanks(i) \o stored \o Blanks(j)

\* the visit the last create or update wrote, as returned
WrittenVisit == IF last.op = "createVisitForUser" THEN last.value ELSE last.value.base

\* C15: after a create or an update the stored title and description are the
\* sent ones without surrounding whitespace, null when nothing but whitespace
\* was sent; a field the request omits is null after a create and unchanged
\* after an update; the returned visit shows the stored values, and
\* normalising them again gives the same values.
C15_TitleAndDescriptionNormalised ==
  (last.op \in {"createVisitForUser", "updateVisitForUser"} /\ last.err = "ok") =>
    \A f \in {"title", "description"} :
      LET stored == visits[WrittenVisit.id][f] IN
      /\ IF Has(last.args.input, f) THEN IsNormalFormOf(stored, last.args.input[f])
         ELSE IF last.op = "createVisitForUser" THEN stored = Null
         ELSE stored = last.pre.visits[WrittenVisit.id][f]
      /\ WrittenVisit[f] = stored
      /\ cleanNullableString(stored) = stored
      /\ IsNormalFormOf(stored, stored)

\* a title with blanks on both sides was stored without them, and a
\* description of blanks as null
C15_Witness ==
  /\ last.op = "updateVisitForUser"
  /\ last.err = "ok"
  /\ last.args.input = [title |-> <<" ", "a", " ">>, description |-> <<" ", "a", " ">>]
  /\ visits["v1"].title = <<"a">>
  /\ last.pre.visits["v1"].description = Null
  /\ last.pre.visits["v1"].title # <<"a">>

\* the visits the statistics are about: not deleted, of a customer of the
\* user, scheduled in the calendar month of the call
VisitsOfTheMonth(userId, now) ==
  {v \in DOMAIN visits :
     /\ ~visits[v].isDeleted
     /\ customers[visits[v].customerId].userId = userId
     /\ visits[v].scheduledStartAt \div MonthTicks = now \div MonthTicks}

\* C16: visitsThisMonth is the number of non-deleted visits of the user's
\* customers scheduled in the month of the call, each visit counted once
\* however many treatments it has.
C16_VisitsThisMonthCountsEachVisitOnce ==
  last.op = "getDashboardStats" =>
    last.value.visitsThisMonth
      = Cardinality(VisitsOfTheMonth(last.args.userId, last.args.now))

\* the visits the list may show to the caller of the last call
Upcoming(userId, now) ==
  {v \in DOMAIN visits :
     /\ ~visits[v].isDeleted
     /\ customers[visits[v].customerId].userId = userId
     /\ visits[v].status = "scheduled"
     /\ visits[v].scheduledStartAt >= now}

\* C17: the upcoming visits are non-deleted scheduled visits of the caller's
\* customers that start at the time of the call or later, each listed once
\* with its own time and status, in ascending order of time, at most five.
C17_UpcomingVisits ==
  last.op = "getUpcomingVisits" =>
    LET listed == last.value IN
    /\ Len(listed) <= 5
    /\ \A i \in 1..Len(listed) :
         /\ listed[i].id \in Upcoming(last.args.userId, last.args.now)
         /\ listed[i].date = visits[listed[i].id].scheduledStartAt
         /\ listed[i].date >= last.args.now
         /\ listed[i].status = "scheduled"
    /\ \A i, j \in 1..Len(listed) :
         i < j => listed[i].date <= listed[j].date /\ listed[i].id # listed[j].id

\* six visits qualify and five are listed, while a cancelled visit, a visit
\* of another user's customer and a deleted visit are left out
C17_Witness ==
  /\ last.op = "getUpcomingVisits"
  /\ last.args = [userId |-> "u1", now |-> 2]
  /\ Cardinality(Upcoming("u1", 2)) > 5
  /\ Len(last.value) = 5
  /\ visits["v1"].status = "cancelled"
  /\ visits["v1"].scheduledStartAt = 3

\* the positions of the storage deletes among the steps of the last call
DeleteSteps == {i \in 1..Len(last.steps) : last.steps[i].call = "deleteObject"}

\* C18: an update of a pet that sets imageUrl to null or to a valid key other
\* than the stored one issues one storage delete, for the key that was
\* stored, after the row was updated; an update that omits imageUrl, repeats
\* the stored key or finds no stored key issues none, and neither does an
\* update that is refused.  A pet whose image was cleared is read back with
\* imageUrl null.
C18_OldPetImageDeletedAfterUpdate ==
  /\ (last.op = "updatePetForCustomer" /\ last.err \in {"ok", "storage_error"}) =>
       LET input == last.args.input
           stored == last.pre.pets[last.args.petId].imageUrl
       IN
       IF Has(input, "imageUrl") /\ stored # Null /\ input.imageUrl # stored
       THEN /\ Cardinality(DeleteSteps) = 1
            /\ \A i \in DeleteSteps :
                 /\ last.steps[i].key = stored
                 /\ \E j \in 1..(i - 1) :
                      last.steps[j] = Step("db", "updatePetById", Null, TRUE)
            /\ pets[last.args.petId].imageUrl = input.imageUrl
       ELSE DeleteSteps = {}
  /\ (last.op = "updatePetForCustomer" /\ last.err \notin {"ok", "storage_error"}) =>
       last.s3 = <<>> /\ last.writes = <<>>
  /\ (last.op = "updatePetForCustomer" /\ last.err = "ok"
        /\ Has(last.args.input, "imageUrl") /\ last.args.input.imageUrl = Null) =>
       last.value.imageUrl = Null /\ pets[last.args.petId].imageUrl = Null
  /\ (last.op = "getPetForCustomer" /\ last.err = "ok"
        /\ pets[last.args.petId].imageUrl = Null) =>
       last.value.imageUrl = Null

\* a stored key was replaced by another valid key and deleted after the update
C18_Witness ==
  /\ last.op = "updatePetForCustomer"
  /\ last.err = "ok"
  /\ last.pre.pets["p1"].imageUrl = PetProfileKey("u1", "c1", "p1", "n1")
  /\ last.args.petId = "p1"
  /\ last.args.input = [imageUrl |-> PetProfileKey("u1", "c1", "p1", "n2")]
  /\ Len(last.steps) = 3
  /\ last.steps[2] = Step("s3", "deleteObject", PetProfileKey("u1", "c1", "p1", "n1"), TRUE)

\* the positions in calls of the calls of this name made for run r
CallsOf(r, name) == {i \in 1..Len(calls) : calls[i].run = r /\ calls[i].call = name}

\* C19: for every selected file the component calls onUploadUrlRequest, then
\* PUTs the file to the url that call resolved with, then calls
\* onUploadComplete with the key that call resolved with and the file: each
\* at most once, the PUT only after the url request has resolved, the
\* completion only after the PUT has answered ok.  When the url request
\* rejects or the PUT does not answer ok, onUploadComplete is not called.
C19_UploadProtocolOrder ==
  \A r \in 1..Len(runs) :
    LET requests == CallsOf(r, "onUploadUrlRequest")
        puts == CallsOf(r, "PUT")
        completions == CallsOf(r, "onUploadComplete")
        settled == runs[r].settled
    IN
    /\ Cardinality(requests) <= 1 /\ Cardinality(puts) <= 1 /\ Cardinality(completions) <= 1
    /\ \A i \in requests : calls[i].file = runs[r].file
    /\ \A i \in puts :
         /\ \E j \in requests : j < i
         /\ Len(settled) >= 1 /\ settled[1] = "resolved"
         /\ calls[i].url = runs[r].url /\ runs[r].url \in {"url1", "url2"}
         /\ calls[i].file = runs[r].file
    /\ \A i \in completions :
         /\ \E j \in puts : j < i
         /\ Len(settled) >= 2 /\ settled[2] = "ok"
         /\ calls[i].key = runs[r].key
         /\ <<runs[r].url, runs[r].key>> \in {<<"url1", "key1">>, <<"url2", "key2">>}
         /\ calls[i].file = runs[r].file
    /\ ((Len(settled) >= 1 /\ settled[1] = "rejected")
          \/ (Len(settled) >= 2 /\ settled[2] # "ok")) => completions = {}

\* a file went through the three calls in that order, with the url and the
\* key the url request resolved with, and its completion resolved
C19_Witness ==
  /\ Len(runs) >= 1
  /\ runs[1].settled = <<"resolved", "ok", "resolved">>
  /\ Len(calls) >= 3
  /\ [i \in 1..3 |-> <<calls[i].call, calls[i].run>>]
       = <<<<"onUploadUrlRequest", 1>>, <<"PUT", 1>>, <<"onUploadComplete", 1>>>>
  /\ calls[2].url = "url2"
  /\ calls[3].key = "key2"

\* the entries of the accept list of the mounted component
Accepted ==
  IF props.accept = DefaultAccept
  THEN {<<"image/png">>, <<"image/jpeg">>, <<"image/webp">>}
  ELSE {<<".", "png">>, <<"image/webp">>}

\* the file fails a validation: its type is not accepted (by MIME type or,
\* for an entry that starts with a dot, by the end of its name whatever the
\* case), it is larger than maxSizeBytes, or dimensions are limited and its
\* image does not load, is below the minimum or above the maximum
FailsValidation(file) ==
  \/ /\ file.type \notin Accepted
     /\ \/ <<".", "png">> \notin Accepted
        \/ SubSeq(file.name, 2, 3) \notin {<<".", "png">>, <<".", "PNG">>}
  \/ file.size > props.maxSizeBytes
  \/ /\ props.minDimensions \cup props.maxDimensions # {}
     /\ \/ ~file.image.loads
        \/ \E d \in props.minDimensions :
             file.image.width < d.width \/ file.image.height < d.height
        \/ \E d \in props.maxDimensions :
             file.image.width > d.width \/ file.image.height > d.height

\* C20: a file that fails validation never leads to a call of
\* onUploadUrlRequest, a PUT or a call of onUploadComplete, and does not move
\* the upload stage: the stage is idle unless a file that passed is under way.
C20_InvalidFileNeverUploads ==
  /\ \A r \in 1..Len(runs) :
       FailsValidation(runs[r].file) =>
         /\ \A i \in 1..Len(calls) : calls[i].run # r
         /\ runs[r].pc \in {"dimensions", "rejected"}
  /\ uploadStage # "idle" =>
       \E r \in 1..Len(runs) :
         /\ ~FailsValidation(runs[r].file)
         /\ runs[r].pc \in {"requesting-url", "uploading-to-s3", "completing"}

\* an image of the right width that is too tall was refused: nothing was
\* called and the stage is idle
C20_Witness ==
  /\ Len(runs) >= 1
  /\ runs[1].file.image = [loads |-> TRUE, width |-> 2, height |-> 4]
  /\ props.maxDimensions # {}
  /\ runs[1].pc = "rejected"
  /\ error = "image-too-large"
  /\ calls = <<>>
  /\ uploadStage = "idle"

\* the runs whose upload is in flight: between the call of onUploadUrlRequest
\* and the end of handleFileChange
InFlight ==
  {r \in 1..Len(runs) : runs[r].pc \in {"requesting-url", "uploading-to-s3", "completing"}}

\* C25: at most one upload is in flight at any time, and while one is in
\* flight the stage is not idle, so the button and the file input are
\* disabled and no second file can start an upload.
C25_OneUploadInFlight ==
  /\ Cardinality(InFlight) <= 1
  /\ InFlight # {} => uploadStage # "idle"

\* the message for a failure of the step a run is waiting in
StepError(pc) ==
  CASE pc = "requesting-url" -> "upload-url-error"
    [] pc = "uploading-to-s3" -> "upload-error"
    [] pc = "completing" -> "complete-error"

\* C21: when a step of an upload fails, the error shown names the step the
\* upload was in, the preview is the initial image again and the stage is
\* idle; the stage is idle after a successful upload as well.
C21_FailureNamesStepAndReturnsToIdle ==
  [][\A r \in 1..Len(runs) :
       /\ (runs[r].pc \in {"requesting-url", "uploading-to-s3", "completing"}
             /\ runs'[r].pc = "failed") =>
            /\ error' = StepError(runs[r].pc)
            /\ preview' = props.initialImage
            /\ uploadStage' = "idle"
       /\ (runs[r].pc = "completing" /\ runs'[r].pc = "completed") =>
            uploadStage' = "idle"]_vars

\* C22: when a pet update succeeds, the entry of the updated pet in the
\* cached pets list, and the cached pet detail when it is that pet's, become
\* the server's response, or without a response body the cached pet with the
\* payload's fields applied (the pet cached before the mutation, when no
\* other mutation was pending meanwhile); every other pet of the cached list
\* stays as it was, and nothing is cached under the key of the empty
\* customer id.
C22_CacheHoldsUpdatedPet ==
  [][\A m \in 1..Len(mutations) :
       (mutations[m].pc = "pending" /\ mutations'[m].pc = "success") =>
         LET data == mutations'[m].data
             id == mutations[m].petId
             payload == mutations[m].payload
             context == mutations[m].context
             before == OldPets(queryData)
             after == OldPets(queryData')
             Updated(pet, previous) ==
               IF data # {} THEN {pet} = data
               ELSE /\ pet = applyPetUpdates(previous, payload)
                    /\ \A f \in DOMAIN payload : pet[f] = payload[f]
         IN /\ petsKey("") \notin DOMAIN queryData'
            /\ petsQueryKey \in DOMAIN queryData'
            /\ Len(after) = Len(before)
            /\ \A i \in 1..Len(before) :
                 IF before[i].id = id
                 THEN /\ Updated(after[i], before[i])
                      /\ mutations[m].alone => Updated(after[i], context.previousPets[i])
                 ELSE /\ after[i] = before[i]
                      /\ mutations[m].alone => after[i] = context.previousPets[i]
            /\ hook.petDetailQueryKey # {} =>
                 IF petDetailQueryKey \in DOMAIN queryData
                 THEN LET old == queryData[petDetailQueryKey] IN
                      IF old.id = id
                      THEN /\ Updated(queryData'[petDetailQueryKey], old)
                           /\ \A previous \in context.previousPetDetail :
                                mutations[m].alone =>
                                  Updated(queryData'[petDetailQueryKey], previous)
                      ELSE queryData'[petDetailQueryKey] = old
                 ELSE IF data # {}
                      THEN /\ petDetailQueryKey \in DOMAIN queryData'
                           /\ {queryData'[petDetailQueryKey]} = data
                      ELSE petDetailQueryKey \notin DOMAIN queryData'
    ]_vars

C22_Witness ==
  \E m \in 1..Len(mutations) :
    /\ mutations[m].pc = "success"
    /\ mutations[m].data = {}
    /\ mutations[m].petId = "p1"
    /\ mutations[m].payload = [name |-> <<"n">>, breed |-> <<"r">>]
    /\ hook.petDetailQueryKey # {}
    /\ petDetailQueryKey \in DOMAIN queryData
    /\ queryData[petDetailQueryKey] =
         [id |-> "p1", name |-> <<"n">>, breed |-> <<"r">>, imageUrl |-> Null]
    /\ OldPets(queryData) = <<queryData[petDetailQueryKey], CachedPet("p2")>>

\* C23: createVisitForUser inserts the visit row, then the treatment rows,
\* then the note rows, each on its own: between the inserts the visit is
\* stored without the rows that follow, getVisitForUser returns it that way,
\* and an insert that fails leaves the rows of the earlier inserts stored.

C23_SequentialInsertsWithoutTransaction ==
  /\ \A t \in 1..Len(tasks) :
       tasks[t].op = "createVisitForUser" =>
         LET task == tasks[t]
             stored == task.visitId \in DOMAIN visits
             nTreatments == Len(RowsOfVisit(visitTreatments, task.visitId))
             nNotes == Len(RowsOfVisit(visitNotes, task.visitId))
             wanted == Len(ItemsOf(task.input, "treatments"))
             reached == IF task.pc = "thrown" THEN task.at ELSE task.pc
         IN CASE reached \in {"ensure", "checked"} -> task.visitId = ""
              [] reached = "createVisit" /\ task.pc = "thrown" -> task.visitId = ""
              [] reached = "createVisit" -> stored /\ nTreatments = 0 /\ nNotes = 0
              [] reached = "createVisitTreatments" /\ task.pc = "thrown" ->
                   stored /\ nTreatments = 0 /\ nNotes = 0
              [] reached = "createVisitTreatments" ->
                   stored /\ nTreatments = wanted /\ nNotes = 0
              [] reached = "createVisitNotes" ->
                   stored /\ nTreatments = wanted /\ nNotes = 0
              [] reached = "returned" ->
                   /\ stored /\ nTreatments = wanted
                   /\ nNotes = Len(ItemsOf(task.input, "notes"))
  /\ (last.op = "getVisitForUser" /\ last.err = "ok") =>
       /\ Len(last.value.treatments) =
            Len(RowsOfVisit(last.pre.visitTreatments, last.args.visitId))
       /\ Len(last.value.notes) = Len(RowsOfVisit(last.pre.visitNotes, last.args.visitId))

C23_Witness ==
  \E t \in 1..Len(tasks) :
    /\ tasks[t].op = "createVisitForUser"
    /\ tasks[t].pc = "createVisit"
    /\ Len(ItemsOf(tasks[t].input, "treatments")) > 0
    /\ Len(ItemsOf(tasks[t].input, "notes")) > 0
    /\ last.op = "getVisitForUser" /\ last.err = "ok"
    /\ last.args.visitId = tasks[t].visitId
    /\ last.value.treatments = <<>> /\ last.value.notes = <<>>

\* C24: a successful updateVisitForUser leaves every field the body omits
\* (status, scheduledStartAt, scheduledEndAt, completedAt, title,
\* description) at its stored value, stores the supplied status and dates,
\* clears scheduledEndAt or completedAt given as null, never changes
\* customerId or petId of any visit, and with no field but notes or
\* treatments in the body leaves the whole visit row as it was.
BodyFields ==
  {"status", "scheduledStartAt", "scheduledEndAt", "completedAt", "title", "description"}

C24_UpdateChangesOnlySuppliedFields ==
  last.op = "updateVisitForUser" =>
    /\ \A id \in DOMAIN last.pre.visits :
         /\ visits[id].customerId = last.pre.visits[id].customerId
         /\ visits[id].petId = last.pre.visits[id].petId
         /\ id # last.args.visitId => visits[id] = last.pre.visits[id]
    /\ last.err # "ok" => visits = last.pre.visits
    /\ last.err = "ok" =>
         LET input == last.args.input
             old == last.pre.visits[last.args.visitId]
             new == visits[last.args.visitId]
         IN /\ \A f \in BodyFields : ~Has(input, f) => new[f] = old[f]
            /\ \A f \in {"status", "scheduledStartAt", "scheduledEndAt", "completedAt"} :
                 Has(input, f) => new[f] = input[f]
            /\ \A f \in {"scheduledEndAt", "completedAt"} :
                 (Has(input, f) /\ input[f] = NullNum) => new[f] = NullNum
            /\ new.isDeleted = old.isDeleted
            /\ DOMAIN input \cap BodyFields = {} => new = old

C24_Witness ==
  /\ last.op = "updateVisitForUser" /\ last.err = "ok"
  /\ last.args.input = [completedAt |-> NullNum]
  /\ last.pre.visits[last.args.visitId].completedAt = 3
  /\ visits[last.args.visitId].completedAt = NullNum
  /\ visits[last.args.visitId].scheduledEndAt = 2
  /\ visits[last.args.visitId].title = <<"a">>

\* C26: in every reachable state the pet of each visit is a pet of the
\* visit's customer; a visit that createVisitForUser wrote holds the ids of
\* the customer and the pet the call verified, the customer being the
\* calling user's; and no later call changes the ids of a stored visit.
C26_VisitOwnershipChain ==
  /\ \A v \in DOMAIN visits :
       /\ visits[v].petId \in DOMAIN pets
       /\ visits[v].customerId \in DOMAIN customers
       /\ pets[visits[v].petId].customerId = visits[v].customerId
       /\ customers[visits[v].customerId].userId \in Users
  /\ \A t \in 1..Len(tasks) :
       (tasks[t].op = "createVisitForUser" /\ tasks[t].visitId # "") =>
         /\ visits[tasks[t].visitId].customerId = tasks[t].input.customerId
         /\ visits[tasks[t].visitId].petId = tasks[t].input.petId
         /\ customers[tasks[t].input.customerId].userId = tasks[t].userId
  /\ last.op # "none" =>
       \A v \in DOMAIN last.pre.visits :
         /\ visits[v].customerId = last.pre.visits[v].customerId
         /\ visits[v].petId = last.pre.visits[v].petId

C26_Witness ==
  /\ last.op = "updateVisitForUser" /\ last.err = "ok"
  /\ \E t \in 1..Len(tasks) :
       /\ tasks[t].op = "createVisitForUser" /\ tasks[t].visitId = last.args.visitId
       /\ visits[tasks[t].visitId].customerId = "c2"
       /\ visits[tasks[t].visitId].petId = "p3"
       /\ pets["p3"].isDeleted
       /\ customers["c2"].isDeleted

\* C27: of the deleteVisitImage calls that run at once on one image, at most
\* one returns the image, and the image is soft-deleted exactly when one
\* has; every other call fails: with not-found and no storage call when its
\* lookup came after the soft delete (or the visit is not the caller's or
\* not the image's), with the internal error after its own storage delete
\* when another call deleted the row after its lookup; once all calls have
\* ended and one of them was the owner's, exactly one has returned.
DeleteCalls == {t \in 1..Len(tasks) : tasks[t].op = "deleteVisitImage"}

C27_ConcurrentDeletesOneWinner ==
  LET returned == {t \in DeleteCalls : tasks[t].pc = "returned"}
      thrown == {t \in DeleteCalls : tasks[t].pc = "thrown"}
      owners == {t \in DeleteCalls : tasks[t].userId = "u1" /\ tasks[t].visitId = "v1"}
  IN /\ Cardinality(returned) <= 1
     /\ visitImages[1].isDeleted <=> returned # {}
     /\ \A t \in returned : t \in owners /\ Len(tasks[t].s3) = 1
     /\ \A t \in thrown :
          \/ /\ tasks[t].at = "findVisitImageById" /\ tasks[t].err = "not_found"
             /\ tasks[t].s3 = <<>>
             /\ t \in owners => visitImages[1].isDeleted
          \/ /\ tasks[t].at = "deleteVisitImage" /\ tasks[t].err = "error"
             /\ Len(tasks[t].s3) = 1
             /\ tasks[t].s3[1].key = StoredImage.storageKey
             /\ returned # {}
     /\ (owners # {} /\ DeleteCalls = returned \cup thrown) => Cardinality(returned) = 1

C27_Witness ==
  \E t, o \in DeleteCalls :
    /\ tasks[t].pc = "returned"
    /\ tasks[o].pc = "thrown" /\ tasks[o].err = "error"
    /\ tasks[o].s3 = tasks[t].s3
    /\ visitImages[1].isDeleted

\* C28: once updatePetForCustomer calls on one pet have all returned, in
\* whatever order their awaits ran, a storage delete has been issued for
\* every key that was stored as the pet's imageUrl and is not the current
\* one, and none for the current key.
PetCalls == {t \in 1..Len(tasks) : tasks[t].op = "updatePetForCustomer"}
OnceStored ==
  {FirstPetKey} \cup
    {tasks[t].input.imageUrl :
       t \in {u \in PetCalls : /\ tasks[u].pc \in {"updatePetById", "returned"}
                               /\ Has(tasks[u].input, "imageUrl")}}
C28_ReplacedPetImagesDoNotLeak ==
  (PetCalls # {} /\ \A t \in PetCalls : tasks[t].pc = "returned") =>
    /\ \A key \in OnceStored \ {Null, pets["p1"].imageUrl} :
         \E t \in PetCalls : \E i \in 1..Len(tasks[t].s3) : tasks[t].s3[i].key = key
    /\ \A t \in PetCalls : \A i \in 1..Len(tasks[t].s3) :
         tasks[t].s3[i].key # pets["p1"].imageUrl

====
